---- MODULE Spec2Model ----
(***************************************************************************)
(* Client-side state machines of the two React frontends of the repository *)
(* (the "Nissan ML Platform" UI and the "EV Battery Predictor" dashboard): *)
(* the authentication providers, the axios interceptors, the route guards  *)
(* and the training-status polling loops.  The backends are external; they *)
(* appear as a nondeterministic choice of the response to each request.    *)
(*                                                                         *)
(* JavaScript runs one task at a time.  A handler is split exactly at its  *)
(* awaits: the delivery of a response runs the axios response interceptor, *)
(* and the caller's continuation runs afterwards as a microtask, before    *)
(* any other task (timer, user event, network event) may run.              *)
(***************************************************************************)
EXTENDS Integers, Sequences, FiniteSets, TLC

\* ------------------------------------------------------------------------
\* Values shared by both frontends
\* ------------------------------------------------------------------------

Null == "null"

\* Bound on the wall clock (Date.now() / 1000, in whole seconds).
MaxClock == 2

\* Stored tokens.  "garbage" is not a JWT, "tokNoExp" is a JWT without an
\* exp claim, the others carry the exp given by Exp.
Tokens == {"garbage", "tokNoExp", "tokA", "tokB"}

Users == {"alice", "bob"}

\* jwtDecode(token) throws for a string that is not a JWT.
Decodable(t) == t # "garbage"

\* decodedToken.exp; -1 stands for undefined.
Exp(t) == CASE t = "tokA" -> 1
            [] t = "tokB" -> 2
            [] OTHER -> -1

\* decodedToken.exp < currentTime; a comparison with undefined is false.
ExpiredMutant(t, currentTime) == Exp(t) # -1 /\ Exp(t) > currentTime

Expired(t, currentTime) == Exp(t) # -1 /\ Exp(t) < currentTime

\* HTTP outcomes.  status 0 is a request that got no response (network
\* error); detail is response.data.detail of an error response.
NoResp == [status |-> -1, detail |-> Null, data |-> Null]

MeOk == {[status |-> 200, detail |-> Null, data |-> u] : u \in Users}

LoginOk == {[status |-> 200, detail |-> Null, data |-> t] : t \in Tokens}

PlainOk == {[status |-> 200, detail |-> Null, data |-> Null]}

Failures == {[status |-> 0, detail |-> Null, data |-> Null]} \cup
            {[status |-> s, detail |-> d, data |-> Null] :
                s \in {401, 500}, d \in {Null, "detail"}}

\* err.response?.data?.detail || err.message
DetailOrMessage(resp) == IF resp.detail # Null THEN resp.detail ELSE "message"

\* A request slot: one outstanding call of one call site.
IdleReq == [stage |-> "idle", url |-> Null, auth |-> Null, resp |-> NoResp]

SentReq(config) == [stage |-> "sent", url |-> config.url, auth |-> config.auth,
                    resp |-> NoResp]

Bearer(t) == "Bearer " \o t

\* ------------------------------------------------------------------------
\* Nissan frontend: services/api.js, context/AuthContext.js, routes
\* ------------------------------------------------------------------------

NPublicPaths == {"/login"}
NProtectedPaths == {"/dashboard", "/files"}
NPaths == NPublicPaths \cup NProtectedPaths

NSlots == {"initMe", "login", "loginMe", "page"}

VARIABLES
  now,           \* wall clock
  nToken,        \* localStorage 'token' of the Nissan origin
  nCurrentUser,  \* AuthProvider state
  nLoading,
  nError,
  nStarted,      \* the mount effect (initAuth) has run
  nInitToken,    \* initAuth's local: the token it read from localStorage
  nReq,          \* request slots
  nLoginResult,  \* outcome of the last login() call seen by its caller
  nLocation,     \* router location
  nFrom,         \* location.state.from
  nScreen,       \* what the matched route renders
  nHref,         \* URL assigned to window.location.href, not yet loaded
  nOp,           \* the handler that ran last
  nLoggedOut     \* logout() ran and no login has stored a token since

nvars == <<now, nToken, nCurrentUser, nLoading, nError, nStarted,
           nInitToken, nReq,
           nLoginResult, nLocation, nFrom, nScreen, nHref, nOp,
           nLoggedOut>>

\* apiClient.interceptors.request
NRequestInterceptorMutant(url, token) ==
  [url |-> url, auth |-> Bearer(token)]

NRequestInterceptor(url, token) ==
  [url |-> url, auth |-> IF token # Null THEN Bearer(token) ELSE Null]

\* apiClient.interceptors.response, error branch: the token to store, whether
\* window.location.href is assigned, and that the error is rejected onwards.
NResponseInterceptorMutant(resp, token) ==
  [token |-> IF resp.status # 200 THEN Null ELSE token,
   href |-> IF resp.status = 401 THEN "/login" ELSE Null,
   stage |-> IF resp.status = 200 THEN "resolved" ELSE "rejected"]

NResponseInterceptor(resp, token) ==
  [token |-> IF resp.status = 401 THEN Null ELSE token,
   href |-> IF resp.status = 401 THEN "/login" ELSE Null,
   stage |-> IF resp.status = 200 THEN "resolved" ELSE "rejected"]

\* routes/ProtectedRoute.js
ProtectedRouteMutant(loading, isAuthenticated) ==
  IF ~isAuthenticated THEN "redirect"
  ELSE IF loading THEN "spinner" ELSE "children"

ProtectedRoute(loading, isAuthenticated) ==
  IF loading THEN "spinner"
  ELSE IF ~isAuthenticated THEN "redirect" ELSE "children"

\* routes/PublicRoute.js
PublicRoute(loading, isAuthenticated) ==
  IF loading THEN "spinner"
  ELSE IF isAuthenticated THEN "redirect" ELSE "children"

NRoute(loc, loading, isAuthenticated) ==
  IF loc \in NPublicPaths THEN PublicRoute(loading, isAuthenticated)
  ELSE ProtectedRoute(loading, isAuthenticated)

NScreenOf(loc, view) ==
  IF view = "spinner" THEN "spinner"
  ELSE IF loc \in NPublicPaths THEN "login" ELSE "app"

\* One render pass of <Routes>: a <Navigate> element changes the location and
\* the routes render again at the new location.
NRender(loc, from, loading, isAuthenticated) ==
  LET v == NRoute(loc, loading, isAuthenticated) IN
  IF v # "redirect"
  THEN [loc |-> loc, from |-> from, screen |-> NScreenOf(loc, v)]
  ELSE LET loc2 == IF loc \in NPublicPaths THEN "/dashboard" ELSE "/login"
           from2 == IF loc \in NPublicPaths THEN Null ELSE loc
           v2 == NRoute(loc2, loading, isAuthenticated)
       IN [loc |-> loc2, from |-> from2, screen |-> NScreenOf(loc2, v2)]

\* isAuthenticated: !!currentUser
NIsAuthenticated == nCurrentUser # Null

\* React renders after the state updates of a handler.
NRerender(loc, from) ==
  LET r == NRender(loc, from, nLoading', nCurrentUser' # Null) IN
  /\ nLocation' = r.loc
  /\ nFrom' = r.from
  /\ nScreen' = r.screen

NMicrotaskPending == \E s \in NSlots : nReq[s].stage \in {"resolved", "rejected"}

NIdle == [s \in NSlots |-> IdleReq]

NInit ==
  /\ now = 0
  /\ nToken \in Tokens \cup {Null}
  /\ nCurrentUser = Null
  /\ nLoading = TRUE
  /\ nError = Null
  /\ nStarted = FALSE
  /\ nInitToken = Null
  /\ nReq = NIdle
  /\ nLoginResult = [kind |-> "none", value |-> Null]
  /\ nLocation \in NPaths
  /\ nFrom = Null
  /\ nScreen = "spinner"
  /\ nHref = Null
  /\ nOp = "load"
  /\ nLoggedOut = FALSE

\* AuthProvider mount effect: initAuth up to its first await.
NInitAuthMutant ==
  /\ nOp' = "initAuth"
  /\ UNCHANGED nLoggedOut
  /\ ~nStarted
  /\ ~NMicrotaskPending
  /\ nStarted' = TRUE
  /\ nInitToken' = nToken
  /\ nError' = nError
  /\ IF nToken = Null
     THEN /\ nLoading' = FALSE
          /\ UNCHANGED <<nToken, nCurrentUser, nReq>>
     ELSE IF ~Decodable(nToken) \/ Expired(nToken, now)
     THEN /\ nToken' = Null
          /\ nCurrentUser' = Null
          /\ nLoading' = FALSE
          /\ UNCHANGED nReq
     ELSE /\ nReq' = [nReq EXCEPT !["initMe"] =
                        SentReq(NRequestInterceptor("/auth/me", nToken))]
          /\ nLoading' = FALSE
          /\ UNCHANGED <<nToken, nCurrentUser>>
  /\ NRerender(nLocation, nFrom)
  /\ UNCHANGED <<now, nLoginResult, nHref>>

NInitAuth ==
  /\ nOp' = "initAuth"
  /\ UNCHANGED nLoggedOut
  /\ ~nStarted
  /\ ~NMicrotaskPending
  /\ nStarted' = TRUE
  /\ nInitToken' = nToken
  /\ nError' = nError
  /\ IF nToken = Null
     THEN /\ nLoading' = FALSE
          /\ UNCHANGED <<nToken, nCurrentUser, nReq>>
     ELSE IF ~Decodable(nToken) \/ Expired(nToken, now)
     THEN /\ nToken' = Null
          /\ nCurrentUser' = Null
          /\ nLoading' = FALSE
          /\ UNCHANGED nReq
     ELSE /\ nReq' = [nReq EXCEPT !["initMe"] =
                        SentReq(NRequestInterceptor("/auth/me", nToken))]
          /\ UNCHANGED <<nToken, nCurrentUser, nLoading>>
  /\ NRerender(nLocation, nFrom)
  /\ UNCHANGED <<now, nLoginResult, nHref>>

\* A response reaches the page.  Requests of apiClient pass the response
\* interceptor; authService.login uses the bare axios instance.
NDeliver(s, resp) ==
  /\ nOp' = "deliver"
  /\ UNCHANGED nLoggedOut
  /\ nReq[s].stage = "sent"
  /\ ~NMicrotaskPending
  /\ resp \in (CASE s \in {"initMe", "loginMe"} -> MeOk
                 [] s = "login" -> LoginOk
                 [] OTHER -> PlainOk) \cup Failures
  /\ IF s = "login"
     THEN /\ nReq' = [nReq EXCEPT ![s].resp = resp,
                        ![s].stage = IF resp.status = 200 THEN "resolved"
                                     ELSE "rejected"]
          /\ UNCHANGED <<nToken, nHref>>
     ELSE LET i == NResponseInterceptor(resp, nToken) IN
          /\ nReq' = [nReq EXCEPT ![s].resp = resp, ![s].stage = i.stage]
          /\ nToken' = i.token
          /\ nHref' = IF i.href # Null THEN i.href ELSE nHref
  /\ UNCHANGED <<now, nCurrentUser, nLoading, nError, nStarted, nInitToken, nLoginResult,
                 nLocation, nFrom, nScreen>>

\* initAuth after await authService.getCurrentUser()
NInitAuthDone ==
  /\ nOp' = "initAuthDone"
  /\ UNCHANGED nLoggedOut
  /\ nReq["initMe"].stage \in {"resolved", "rejected"}
  /\ IF nReq["initMe"].stage = "resolved"
     THEN /\ nCurrentUser' = nReq["initMe"].resp.data
          /\ UNCHANGED nToken
     ELSE /\ nToken' = Null
          /\ nCurrentUser' = Null
  /\ nLoading' = FALSE
  /\ nReq' = [nReq EXCEPT !["initMe"] = IdleReq]
  /\ NRerender(nLocation, nFrom)
  /\ UNCHANGED <<now, nError, nStarted, nInitToken, nLoginResult, nHref>>

\* LoginForm.handleLogin -> login(email, password) up to the first await
NLogin ==
  /\ nOp' = "login"
  /\ UNCHANGED nLoggedOut
  /\ nScreen = "login"
  /\ ~NMicrotaskPending
  /\ nReq["login"].stage = "idle" /\ nReq["loginMe"].stage = "idle"
  /\ nLoading' = TRUE
  /\ nError' = Null
  /\ nReq' = [nReq EXCEPT !["login"] =
                SentReq([url |-> "/auth/login", auth |-> Null])]
  /\ nLoginResult' = [kind |-> "pending", value |-> Null]
  /\ NRerender(nLocation, nFrom)
  /\ UNCHANGED <<now, nToken, nCurrentUser, nStarted, nInitToken, nHref>>

\* authService.login after the POST, then login() up to getCurrentUser()
NLoginStepMutant ==
  /\ nOp' = "loginStep"
  /\ nLoggedOut' = (nLoggedOut /\ nReq["login"].stage # "resolved")
  /\ nReq["login"].stage \in {"resolved", "rejected"}
  /\ IF nReq["login"].stage = "resolved"
     THEN /\ nToken' = nReq["login"].resp.data
          /\ nReq' = [nReq EXCEPT !["login"] = IdleReq,
                        !["loginMe"] =
                          SentReq(NRequestInterceptor("/auth/me", nToken))]
          /\ UNCHANGED <<nError, nLoading, nLoginResult>>
     ELSE /\ nError' = DetailOrMessage(nReq["login"].resp)
          /\ nLoginResult' = [kind |-> "thrown", value |-> Null]
          /\ nLoading' = FALSE
          /\ nReq' = [nReq EXCEPT !["login"] = IdleReq]
          /\ UNCHANGED nToken
  /\ UNCHANGED nCurrentUser
  /\ NRerender(nLocation, nFrom)
  /\ UNCHANGED <<now, nStarted, nInitToken, nHref>>

NLoginStep ==
  /\ nOp' = "loginStep"
  /\ nLoggedOut' = (nLoggedOut /\ nReq["login"].stage # "resolved")
  /\ nReq["login"].stage \in {"resolved", "rejected"}
  /\ IF nReq["login"].stage = "resolved"
     THEN /\ nToken' = nReq["login"].resp.data
          /\ nReq' = [nReq EXCEPT !["login"] = IdleReq,
                        !["loginMe"] =
                          SentReq(NRequestInterceptor("/auth/me", nToken'))]
          /\ UNCHANGED <<nError, nLoading, nLoginResult>>
     ELSE /\ nError' = DetailOrMessage(nReq["login"].resp)
          /\ nLoginResult' = [kind |-> "thrown", value |-> Null]
          /\ nLoading' = FALSE
          /\ nReq' = [nReq EXCEPT !["login"] = IdleReq]
          /\ UNCHANGED nToken
  /\ UNCHANGED nCurrentUser
  /\ NRerender(nLocation, nFrom)
  /\ UNCHANGED <<now, nStarted, nInitToken, nHref>>

\* login() after await authService.getCurrentUser(); on success handleLogin
\* goes on to navigate('/dashboard').
NLoginDone ==
  /\ nOp' = "loginDone"
  /\ UNCHANGED nLoggedOut
  /\ nReq["loginMe"].stage \in {"resolved", "rejected"}
  /\ nLoading' = FALSE
  /\ nReq' = [nReq EXCEPT !["loginMe"] = IdleReq]
  /\ IF nReq["loginMe"].stage = "resolved"
     THEN /\ nCurrentUser' = nReq["loginMe"].resp.data
          /\ nLoginResult' = [kind |-> "returned",
                              value |-> nReq["loginMe"].resp.data]
          /\ nError' = nError
          /\ NRerender("/dashboard", Null)
     ELSE /\ nError' = DetailOrMessage(nReq["loginMe"].resp)
          /\ nLoginResult' = [kind |-> "thrown", value |-> Null]
          /\ nCurrentUser' = nCurrentUser
          /\ NRerender(nLocation, nFrom)
  /\ UNCHANGED <<now, nToken, nStarted, nInitToken, nHref>>

\* Layout.handleLogout: logout(); navigate('/login')
NLogout ==
  /\ nOp' = "logout"
  /\ nLoggedOut' = TRUE
  /\ nScreen = "app"
  /\ ~NMicrotaskPending
  /\ nToken' = Null
  /\ nCurrentUser' = Null
  /\ nLoading' = nLoading
  /\ NRerender("/login", Null)
  /\ UNCHANGED <<now, nError, nStarted, nInitToken, nReq, nLoginResult,
                 nHref>>

\* A page under the layout calls a service of apiClient (fileService.getFiles
\* and the like).
NPageRequest ==
  /\ nOp' = "pageRequest"
  /\ UNCHANGED nLoggedOut
  /\ nScreen = "app"
  /\ ~NMicrotaskPending
  /\ nReq["page"].stage = "idle"
  /\ nReq' = [nReq EXCEPT !["page"] =
                SentReq(NRequestInterceptor("/files/list", nToken))]
  /\ UNCHANGED <<now, nToken, nCurrentUser, nLoading, nError, nStarted, nInitToken,
                 nLoginResult, nLocation, nFrom, nScreen, nHref>>

\* The page's own try/catch around the service call.
NPageDone ==
  /\ nOp' = "pageDone"
  /\ UNCHANGED nLoggedOut
  /\ nReq["page"].stage \in {"resolved", "rejected"}
  /\ nReq' = [nReq EXCEPT !["page"] = IdleReq]
  /\ UNCHANGED <<now, nToken, nCurrentUser, nLoading, nError, nStarted, nInitToken,
                 nLoginResult, nLocation, nFrom, nScreen, nHref>>

\* The user follows a link of the layout.
NNavigate(path) ==
  /\ nOp' = "navigate"
  /\ UNCHANGED nLoggedOut
  /\ nScreen = "app"
  /\ ~NMicrotaskPending
  /\ path \in NProtectedPaths /\ path # nLocation
  /\ nLoading' = nLoading /\ nCurrentUser' = nCurrentUser
  /\ NRerender(path, Null)
  /\ UNCHANGED <<now, nToken, nError, nStarted, nInitToken, nReq, nLoginResult,
                 nHref>>

\* A document load: every piece of in-memory state starts afresh, outstanding
\* requests of the old document are dropped, localStorage survives.
NLoadDocument(path, op) ==
  /\ nOp' = op
  /\ UNCHANGED nLoggedOut
  /\ nCurrentUser' = Null
  /\ nLoading' = TRUE
  /\ nError' = Null
  /\ nStarted' = FALSE
  /\ nInitToken' = Null
  /\ nReq' = NIdle
  /\ nLoginResult' = [kind |-> "none", value |-> Null]
  /\ nLocation' = path
  /\ nFrom' = Null
  /\ nScreen' = "spinner"
  /\ nHref' = Null
  /\ UNCHANGED <<now, nToken>>

\* window.location.href = '/login' takes effect.
NUnload ==
  /\ nHref # Null
  /\ ~NMicrotaskPending
  /\ NLoadDocument(nHref, "unload")

\* The user opens a URL of the application in the address bar.
NOpenUrl(path) ==
  /\ nHref = Null
  /\ ~NMicrotaskPending
  /\ nStarted
  /\ path \in NPaths
  /\ NLoadDocument(path, "openUrl")

NTick ==
  /\ nOp' = "tick"
  /\ UNCHANGED nLoggedOut
  /\ ~NMicrotaskPending
  /\ now < MaxClock
  /\ now' = now + 1
  /\ UNCHANGED <<nToken, nCurrentUser, nLoading, nError, nStarted, nInitToken, nReq,
                 nLoginResult, nLocation, nFrom, nScreen, nHref>>

\* The Nissan frontend is not the loaded application.
NQuiet ==
  /\ now = 0
  /\ nToken = Null
  /\ nCurrentUser = Null
  /\ nLoading = TRUE
  /\ nError = Null
  /\ nStarted = FALSE
  /\ nInitToken = Null
  /\ nReq = NIdle
  /\ nLoginResult = [kind |-> "none", value |-> Null]
  /\ nLocation = "/login"
  /\ nFrom = Null
  /\ nScreen = "spinner"
  /\ nHref = Null
  /\ nOp = "load"
  /\ nLoggedOut = FALSE

\* ------------------------------------------------------------------------
\* EV frontend: services/api.js, contexts/AuthContext.js, utils/errorHandling
\* ------------------------------------------------------------------------

ESlots == {"initMe", "login", "loginMe", "register", "page"}

\* The EV provider never decodes a token: two distinct ones suffice.
ETokens == {"tokA", "tokB"}

ELoginOk == {[status |-> 200, detail |-> Null, data |-> t] : t \in ETokens}

\* Error responses of the EV backend; detail is the JavaScript type of
\* response.data.detail ("undefined" when there is none or it is falsy).
EFailures == {[status |-> 0, detail |-> "undefined", data |-> Null]} \cup
             {[status |-> s, detail |-> d, data |-> Null] :
                 s \in {401, 500},
                 d \in {"undefined", "string", "array", "object", "number"}}

EIdleReq == [stage |-> "idle", url |-> Null, data |-> Null, auth |-> Null,
             ctype |-> Null, resp |-> NoResp]

ESentReq(config) == [stage |-> "sent", url |-> config.url, data |-> config.data,
                     auth |-> config.auth, ctype |-> config.ctype,
                     resp |-> NoResp]

VARIABLES
  app,              \* which frontend the browser has loaded
  eToken,           \* localStorage 'token' of the EV origin
  eUser,            \* AuthProvider state
  eLoading,
  eIsAuthenticated,
  eStarted,         \* the mount effect has run
  eReq,             \* request slots
  eCallResult,      \* settlement of the last login() or register() promise
  eHref,            \* URL assigned to window.location.href, not yet loaded
  eOp,              \* the handler that ran last
  eLoggedOut        \* logout() ran and no login has stored a token since

evars == <<eToken, eUser, eLoading, eIsAuthenticated, eStarted, eReq,
           eCallResult, eHref, eOp, eLoggedOut>>

\* axios.create defaults merged with the headers of the call
EConfig(url, data, ctype) ==
  [url |-> url, data |-> data, auth |-> Null,
   ctype |-> IF ctype # Null THEN ctype ELSE "application/json"]

\* api.interceptors.request
ERequestInterceptorMutant(config, token) ==
  [config EXCEPT
     !.auth = IF token # Null THEN Bearer(token) ELSE @,
     !.ctype = IF config.data = "FormData" /\ @ = "application/json"
               THEN Null ELSE @]

ERequestInterceptor(config, token) ==
  [config EXCEPT
     !.auth = IF token # Null THEN Bearer(token) ELSE @,
     !.ctype = IF config.data = "FormData" THEN Null ELSE @]

\* api.interceptors.response
EResponseInterceptor(resp, token) ==
  [token |-> IF resp.status = 401 THEN Null ELSE token,
   href |-> IF resp.status = 401 THEN "/login" ELSE Null,
   stage |-> IF resp.status = 200 THEN "resolved" ELSE "rejected"]

\* utils/errorHandling.formatErrorMessage: the message and its type
formatErrorMessageMutant(resp, defaultMessage) ==
  IF resp.detail = "undefined" THEN [type |-> "string", text |-> defaultMessage]
  ELSE IF resp.detail = "string" THEN [type |-> "string", text |-> "detail"]
  ELSE IF resp.detail = "array" THEN [type |-> "string", text |-> "joined"]
  ELSE [type |-> "object", text |-> "detail"]

formatErrorMessage(resp, defaultMessage) ==
  IF resp.detail = "undefined" THEN [type |-> "string", text |-> defaultMessage]
  ELSE IF resp.detail = "string" THEN [type |-> "string", text |-> "detail"]
  ELSE IF resp.detail = "array" THEN [type |-> "string", text |-> "joined"]
  ELSE IF resp.detail = "object" THEN [type |-> "string", text |-> "json"]
  ELSE [type |-> "string", text |-> defaultMessage]

NoError == [type |-> "undefined", text |-> Null]

\* utils/errorHandling.handleApiError
handleApiError(resp, defaultMessage) ==
  [kind |-> "resolved", success |-> FALSE,
   error |-> formatErrorMessage(resp, defaultMessage)]

\* utils/errorHandling.handleApiSuccess
handleApiSuccess ==
  [kind |-> "resolved", success |-> TRUE, error |-> NoError]

NoResult == [kind |-> "none", success |-> FALSE, error |-> NoError]

PendingResult == [kind |-> "pending", success |-> FALSE, error |-> NoError]

EMicrotaskPending ==
  \E s \in ESlots : eReq[s].stage \in {"resolved", "rejected", "finally"}

EIdle == [s \in ESlots |-> EIdleReq]

EInit ==
  /\ eToken \in ETokens \cup {Null}
  /\ eUser = Null
  /\ eLoading = TRUE
  /\ eIsAuthenticated = FALSE
  /\ eStarted = FALSE
  /\ eReq = EIdle
  /\ eCallResult = NoResult
  /\ eHref = Null
  /\ eOp = "load"
  /\ eLoggedOut = FALSE

\* AuthProvider mount effect up to the getProfile() promise
EInitAuth ==
  /\ ~eStarted
  /\ ~EMicrotaskPending
  /\ eOp' = "initAuth"
  /\ eStarted' = TRUE
  /\ IF eToken # Null
     THEN /\ eReq' = [eReq EXCEPT !["initMe"] = ESentReq(
                 ERequestInterceptor(EConfig("/auth/me", Null, Null), eToken))]
          /\ UNCHANGED eLoading
     ELSE /\ eLoading' = FALSE
          /\ UNCHANGED eReq
  /\ UNCHANGED <<eToken, eUser, eIsAuthenticated, eCallResult, eHref, eLoggedOut>>

\* A response reaches the page; every EV request goes through api.
EDeliver(s, resp) ==
  /\ eReq[s].stage = "sent"
  /\ ~EMicrotaskPending
  /\ resp \in (CASE s \in {"initMe", "loginMe"} -> MeOk
                 [] s = "login" -> ELoginOk
                 [] OTHER -> PlainOk) \cup EFailures
  /\ eOp' = "deliver"
  /\ LET i == EResponseInterceptor(resp, eToken) IN
       /\ eReq' = [eReq EXCEPT ![s].resp = resp, ![s].stage = i.stage]
       /\ eToken' = i.token
       /\ eHref' = IF i.href # Null THEN i.href ELSE eHref
  /\ UNCHANGED <<eUser, eLoading, eIsAuthenticated, eStarted, eCallResult, eLoggedOut>>

\* .then / .catch of the mount effect
EInitAuthSettled ==
  /\ eReq["initMe"].stage \in {"resolved", "rejected"}
  /\ eOp' = "initAuthSettled"
  /\ IF eReq["initMe"].stage = "resolved"
     THEN /\ eUser' = eReq["initMe"].resp.data
          /\ eIsAuthenticated' = TRUE
          /\ UNCHANGED eToken
     ELSE /\ eToken' = Null
          /\ UNCHANGED <<eUser, eIsAuthenticated>>
  /\ eReq' = [eReq EXCEPT !["initMe"].stage = "finally"]
  /\ UNCHANGED <<eLoading, eStarted, eCallResult,
                 eHref, eLoggedOut>>

\* .finally of the mount effect
EInitAuthFinally ==
  /\ eReq["initMe"].stage = "finally"
  /\ eOp' = "initAuthFinally"
  /\ eLoading' = FALSE
  /\ eReq' = [eReq EXCEPT !["initMe"] = EIdleReq]
  /\ UNCHANGED <<eToken, eUser, eIsAuthenticated, eStarted, eCallResult, eHref, eLoggedOut>>

\* login(credentials) up to await authAPI.login(formData)
ELogin ==
  /\ eStarted
  /\ ~EMicrotaskPending
  /\ \A s \in {"login", "loginMe", "register"} : eReq[s].stage = "idle"
  /\ eOp' = "login"
  /\ eReq' = [eReq EXCEPT !["login"] = ESentReq(
        ERequestInterceptor(EConfig("/auth/login", "FormData", Null), eToken))]
  /\ eCallResult' = PendingResult
  /\ UNCHANGED <<eToken, eUser, eLoading, eIsAuthenticated, eStarted,
                 eHref, eLoggedOut>>

\* login() between the two awaits
ELoginStep ==
  /\ eReq["login"].stage \in {"resolved", "rejected"}
  /\ eOp' = "loginStep"
  /\ IF eReq["login"].stage = "resolved"
     THEN /\ eToken' = eReq["login"].resp.data
          /\ eReq' = [eReq EXCEPT !["login"] = EIdleReq,
                 !["loginMe"] = ESentReq(ERequestInterceptor(
                                  EConfig("/auth/me", Null, Null), eToken'))]
          /\ eLoggedOut' = FALSE
          /\ UNCHANGED eCallResult
     ELSE /\ eCallResult' = handleApiError(eReq["login"].resp, "Login failed")
          /\ eReq' = [eReq EXCEPT !["login"] = EIdleReq]
          /\ UNCHANGED <<eToken, eLoggedOut>>
  /\ UNCHANGED <<eUser, eLoading, eIsAuthenticated, eStarted, eHref>>

\* login() after await authAPI.getProfile()
ELoginDone ==
  /\ eReq["loginMe"].stage \in {"resolved", "rejected"}
  /\ eOp' = "loginDone"
  /\ eReq' = [eReq EXCEPT !["loginMe"] = EIdleReq]
  /\ IF eReq["loginMe"].stage = "resolved"
     THEN /\ eUser' = eReq["loginMe"].resp.data
          /\ eIsAuthenticated' = TRUE
          /\ eCallResult' = handleApiSuccess
     ELSE /\ eCallResult' =
               handleApiError(eReq["loginMe"].resp, "Login failed")
          /\ UNCHANGED <<eUser, eIsAuthenticated>>
  /\ UNCHANGED <<eToken, eLoading, eStarted, eHref,
                 eLoggedOut>>

\* register(userData) up to await authAPI.register(userData)
ERegister ==
  /\ eStarted
  /\ ~EMicrotaskPending
  /\ \A s \in {"login", "loginMe", "register"} : eReq[s].stage = "idle"
  /\ eOp' = "register"
  /\ eReq' = [eReq EXCEPT !["register"] = ESentReq(
        ERequestInterceptor(EConfig("/auth/register", "json", Null), eToken))]
  /\ eCallResult' = PendingResult
  /\ UNCHANGED <<eToken, eUser, eLoading, eIsAuthenticated, eStarted,
                 eHref, eLoggedOut>>

\* register() after the await
ERegisterDone ==
  /\ eReq["register"].stage \in {"resolved", "rejected"}
  /\ eOp' = "registerDone"
  /\ eCallResult' =
       IF eReq["register"].stage = "resolved" THEN handleApiSuccess
       ELSE handleApiError(eReq["register"].resp, "Registration failed")
  /\ eReq' = [eReq EXCEPT !["register"] = EIdleReq]
  /\ UNCHANGED <<eToken, eUser, eLoading, eIsAuthenticated, eStarted,
                 eHref, eLoggedOut>>

\* logout()
ELogoutMutant ==
  /\ eStarted
  /\ ~EMicrotaskPending
  /\ eOp' = "logout"
  /\ eUser' = Null
  /\ eIsAuthenticated' = FALSE
  /\ eLoggedOut' = TRUE
  /\ UNCHANGED <<eToken, eLoading, eStarted, eReq, eCallResult, eHref>>

ELogout ==
  /\ eStarted
  /\ ~EMicrotaskPending
  /\ eOp' = "logout"
  /\ eToken' = Null
  /\ eUser' = Null
  /\ eIsAuthenticated' = FALSE
  /\ eLoggedOut' = TRUE
  /\ UNCHANGED <<eLoading, eStarted, eReq, eCallResult,
                 eHref>>

\* A page calls one of the api services (vehicleAPI.getVehicles and the like).
EPageRequest ==
  /\ eStarted
  /\ ~EMicrotaskPending
  /\ eReq["page"].stage = "idle"
  /\ eOp' = "pageRequest"
  /\ eReq' = [eReq EXCEPT !["page"] = ESentReq(
        ERequestInterceptor(EConfig("/vehicles", Null, Null), eToken))]
  /\ UNCHANGED <<eToken, eUser, eLoading, eIsAuthenticated, eStarted,
                 eCallResult, eHref, eLoggedOut>>

\* DataUpload.handleFileUpload up to await batteryDataAPI.uploadBatteryData: a
\* FormData body sent with an explicit multipart/form-data Content-Type.
EUploadRequest ==
  /\ eStarted
  /\ ~EMicrotaskPending
  /\ eReq["page"].stage = "idle"
  /\ eOp' = "upload"
  /\ eReq' = [eReq EXCEPT !["page"] = ESentReq(
        ERequestInterceptor(
          EConfig("/battery-data/upload", "FormData", "multipart/form-data"),
          eToken))]
  /\ UNCHANGED <<eToken, eUser, eLoading, eIsAuthenticated, eStarted,
                 eCallResult, eHref, eLoggedOut>>

\* The page's own try/catch around the service call.
EPageDone ==
  /\ eReq["page"].stage \in {"resolved", "rejected"}
  /\ eOp' = "pageDone"
  /\ eReq' = [eReq EXCEPT !["page"] = EIdleReq]
  /\ UNCHANGED <<eToken, eUser, eLoading, eIsAuthenticated, eStarted,
                 eCallResult, eHref, eLoggedOut>>

\* A document load of the EV frontend.
ELoadDocument(op) ==
  /\ eOp' = op
  /\ eUser' = Null
  /\ eLoading' = TRUE
  /\ eIsAuthenticated' = FALSE
  /\ eStarted' = FALSE
  /\ eReq' = EIdle
  /\ eCallResult' = NoResult
  /\ eHref' = Null
  /\ UNCHANGED <<eToken, eLoggedOut>>

\* window.location.href = '/login' takes effect.
EUnload ==
  /\ eHref # Null
  /\ ~EMicrotaskPending
  /\ ELoadDocument("unload")

\* The user opens a URL of the application in the address bar.
EOpenUrl ==
  /\ eHref = Null
  /\ ~EMicrotaskPending
  /\ eStarted
  /\ ELoadDocument("openUrl")

\* ------------------------------------------------------------------------
\* EV frontend: pages/Models.js and pages/ModelDetail.js, handleTrainModel
\* ------------------------------------------------------------------------

\* setInterval(..., 5000)
PollIntervalMs == 5000

\* setTimeout(..., 300000)
PollTimeoutMs == 300000

\* Bound on the poll requests that are outstanding at the same time.
MaxInFlight == 2

\* Bound on how long the clock runs on after the timeout (in intervals).
MaxOverrun == 2

EModels == {"m1", "m2"}

\* What the backend answers to a poll: the model with is_trained, or an error.
EPollAnswers == {"trained", "untrained", "error", "error401"}

VARIABLES
  epPhase,          \* idle | starting | started
  epTrainingModel,  \* trainingModel / trainingInProgress
  epNow,            \* ms since the timers were set
  epInterval,       \* pollInterval: [active, due]
  epTimeout,        \* the 5-minute timer is armed
  epInFlight,       \* outstanding poll requests
  epMessage,        \* the last antd message shown
  epReloads,        \* loadModels / loadModelDetails calls made by the loop
  epPollsSent,      \* poll requests issued by the loop
  epLastAnswer,     \* the poll answer handled last
  epHandled,        \* poll answers handled
  epStopped,        \* a trained answer or a failed poll was handled, or the
                    \* timeout fired
  epToken,          \* localStorage 'token'
  epHref            \* URL assigned to window.location.href, not yet loaded

epvars == <<epPhase, epTrainingModel, epNow, epInterval, epTimeout, epInFlight,
            epMessage, epReloads, epPollsSent, epLastAnswer, epHandled,
            epStopped, epToken, epHref>>

EPInit ==
  /\ epPhase = "idle"
  /\ epTrainingModel = Null
  /\ epNow = 0
  /\ epInterval = [active |-> FALSE, due |-> 0]
  /\ epTimeout = FALSE
  /\ epInFlight = 0
  /\ epMessage = Null
  /\ epReloads = 0
  /\ epPollsSent = 0
  /\ epLastAnswer = Null
  /\ epHandled = 0
  /\ epStopped = FALSE
  /\ epToken = "tokA"
  /\ epHref = Null

EPQuiet == EPInit

\* handleTrainModel up to await modelAPI.trainModel(...)
ETrainModel(m) ==
  /\ epPhase = "idle"
  /\ epHref = Null
  /\ epPhase' = "starting"
  /\ epTrainingModel' = m
  /\ UNCHANGED <<epNow, epInterval, epTimeout, epInFlight, epMessage,
                 epReloads, epPollsSent, epLastAnswer, epHandled, epStopped,
                 epToken, epHref>>

\* handleTrainModel after the await: both timers are set, or the catch runs.
\* A new loop starts with a fresh history.
ETrainStarted(ok, unauthorized) ==
  /\ epPhase = "starting"
  /\ IF ok
     THEN /\ epPhase' = "started"
          /\ epMessage' = "Training started! Check back in a few moments."
          /\ epNow' = 0
          /\ epInterval' = [active |-> TRUE, due |-> PollIntervalMs]
          /\ epTimeout' = TRUE
          /\ epReloads' = 0
          /\ epPollsSent' = 0
          /\ epLastAnswer' = Null
          /\ epHandled' = 0
          /\ epStopped' = FALSE
          /\ UNCHANGED <<epTrainingModel, epToken, epHref>>
     ELSE /\ epPhase' = "idle"
          /\ epTrainingModel' = Null
          /\ epMessage' = "Failed to start training"
          /\ epToken' = IF unauthorized THEN Null ELSE epToken
          /\ epHref' = IF unauthorized THEN "/login" ELSE epHref
          /\ UNCHANGED <<epNow, epInterval, epTimeout, epReloads, epPollsSent,
                         epLastAnswer, epHandled, epStopped>>
  /\ UNCHANGED epInFlight

\* The interval callback up to await modelAPI.getModel(...)
EPollTick ==
  /\ epInterval.active
  /\ epInterval.due = epNow
  /\ epInFlight < MaxInFlight
  /\ epInFlight' = epInFlight + 1
  /\ epPollsSent' = epPollsSent + 1
  /\ epInterval' = [epInterval EXCEPT !.due = epNow + PollIntervalMs]
  /\ UNCHANGED <<epPhase, epTrainingModel, epNow, epTimeout, epMessage,
                 epReloads, epLastAnswer, epHandled, epStopped, epToken,
                 epHref>>

\* The interval callback after the await, with the response interceptor.
EPollAnsweredMutant(a) ==
  /\ epInFlight > 0
  /\ a \in EPollAnswers
  /\ epInFlight' = epInFlight - 1
  /\ epLastAnswer' = a
  /\ epHandled' = epHandled + 1
  /\ epToken' = IF a = "error401" THEN Null ELSE epToken
  /\ epHref' = IF a = "error401" THEN "/login" ELSE epHref
  /\ IF a = "trained"
     THEN /\ epInterval' = [epInterval EXCEPT !.active = FALSE]
          /\ epTrainingModel' = Null
          /\ epMessage' = "Model training completed!"
          /\ epReloads' = epReloads + 1
          /\ epStopped' = TRUE
     ELSE IF a \in {"error", "error401"}
     THEN /\ epStopped' = TRUE
          /\ UNCHANGED <<epInterval, epTrainingModel, epMessage, epReloads>>
     ELSE UNCHANGED <<epInterval, epTrainingModel, epMessage, epReloads,
                      epStopped>>
  /\ UNCHANGED <<epPhase, epNow, epTimeout, epPollsSent>>

EPollAnswered(a) ==
  /\ epInFlight > 0
  /\ a \in EPollAnswers
  /\ epInFlight' = epInFlight - 1
  /\ epLastAnswer' = a
  /\ epHandled' = epHandled + 1
  /\ epToken' = IF a = "error401" THEN Null ELSE epToken
  /\ epHref' = IF a = "error401" THEN "/login" ELSE epHref
  /\ IF a = "trained"
     THEN /\ epInterval' = [epInterval EXCEPT !.active = FALSE]
          /\ epTrainingModel' = Null
          /\ epMessage' = "Model training completed!"
          /\ epReloads' = epReloads + 1
          /\ epStopped' = TRUE
     ELSE IF a \in {"error", "error401"}
     THEN /\ epInterval' = [epInterval EXCEPT !.active = FALSE]
          /\ epTrainingModel' = Null
          /\ epStopped' = TRUE
          /\ UNCHANGED <<epMessage, epReloads>>
     ELSE UNCHANGED <<epInterval, epTrainingModel, epMessage, epReloads,
                      epStopped>>
  /\ UNCHANGED <<epPhase, epNow, epTimeout, epPollsSent>>

\* The setTimeout callback
EPollTimeout ==
  /\ epTimeout
  /\ epNow = PollTimeoutMs
  /\ epTimeout' = FALSE
  /\ epInterval' = [epInterval EXCEPT !.active = FALSE]
  /\ epTrainingModel' = Null
  /\ epStopped' = TRUE
  /\ UNCHANGED <<epPhase, epNow, epInFlight, epMessage, epReloads,
                 epPollsSent, epLastAnswer, epHandled, epToken, epHref>>

\* Time passes to the next multiple of the interval; a timer that is due
\* fires before time passes.
EPass ==
  /\ epPhase = "started"
  /\ ~(epInterval.active /\ epInterval.due = epNow)
  /\ ~(epTimeout /\ epNow = PollTimeoutMs)
  /\ epNow < PollTimeoutMs + MaxOverrun * PollIntervalMs
  /\ epNow' = epNow + PollIntervalMs
  /\ UNCHANGED <<epPhase, epTrainingModel, epInterval, epTimeout, epInFlight,
                 epMessage, epReloads, epPollsSent, epLastAnswer, epHandled,
                 epStopped, epToken, epHref>>

\* window.location.href = '/login' takes effect: the document and its timers
\* are gone.
EPUnload ==
  /\ epHref # Null
  /\ epPhase' = "idle"
  /\ epTrainingModel' = Null
  /\ epInterval' = [epInterval EXCEPT !.active = FALSE]
  /\ epTimeout' = FALSE
  /\ epInFlight' = 0
  /\ epMessage' = Null
  /\ epHref' = Null
  /\ UNCHANGED <<epNow, epReloads, epPollsSent, epLastAnswer, epHandled,
                 epStopped, epToken>>

\* ------------------------------------------------------------------------
\* Nissan frontend: components/ml/ModelTraining.js
\* ------------------------------------------------------------------------

\* setInterval(..., 3000)
TrainingPollMs == 3000

\* Bound on the trainings one component instance starts.
MaxLoops == 1

\* Bound on the clock of the training page, in poll intervals.
MaxPollClock == 2

\* Bound on the poll requests of one interval that are outstanding at the
\* same time.
MaxPending == 1

NPFileIds == {"f1", "f2"}

NPLoopIds == 1 .. MaxLoops

\* training_status of a model
NPStatuses == {"pending", "training", "completed", "failed"}

\* Answers to mlModelService.getModelById: the model, or an error.
NPollOk == {[status |-> 200, detail |-> Null, data |-> s] : s \in NPStatuses}

\* Failed polls; the poll callback does not read the error.
NPollFailures == {f \in Failures : f.detail = Null}

\* Answer to mlModelService.trainModel: the model that was created.
NTrainOk == {[status |-> 200, detail |-> Null, data |-> "pending"]}

\* The message set for a failed training (ASCII rendering of the literal).
TrainingFailedMessage ==
  "El entrenamiento del modelo fallo. Por favor, intenta con diferentes parametros."

\* useState(null) of pollingInterval; interval ids are positive.
NoInterval == 0

NoLoop == [set |-> FALSE, active |-> FALSE, due |-> 0, inFlight |-> 0,
           sent |-> 0, first |-> 0]

VARIABLES
  npMounted,          \* the component instance is mounted
  npEffectRan,        \* the effect of the first render has run
  npFileId,           \* prop fileId
  npOnModelTrained,   \* prop onModelTrained was given
  npFileData,         \* component state: fileData and preview are set
  npPreview,
  npLoading,
  npTraining,
  npError,
  npTrainingStatus,   \* trainingResult?.training_status
  npActiveStep,
  npPollingInterval,  \* state pollingInterval: an interval id or NoInterval
  npCleanup,          \* pollingInterval as captured by the effect's cleanup
  npFileLoad,         \* loadFileData: idle | info | preview (request pending)
  npTrainReq,         \* mlModelService.trainModel is pending
  npLoops,            \* the intervals created by setInterval, by id
  npNow,              \* ms on the clock of the document
  npCalls,            \* calls of onModelTrained
  npLastAnswer,       \* the poll answer handled last, and its loop
  npOp,               \* the handler that ran last
  npToken,            \* localStorage 'token'
  npHref              \* URL assigned to window.location.href, not yet loaded

npvars == <<npMounted, npEffectRan, npFileId, npOnModelTrained, npFileData,
            npPreview, npLoading,
            npTraining, npError, npTrainingStatus, npActiveStep,
            npPollingInterval, npCleanup, npFileLoad, npTrainReq, npLoops,
            npNow, npCalls, npLastAnswer, npOp, npToken, npHref>>

NoAnswer == [loop |-> 0, resp |-> NoResp]

NPInit ==
  /\ npMounted = TRUE
  /\ npEffectRan = FALSE
  /\ npFileId = "f1"
  /\ npOnModelTrained \in BOOLEAN
  /\ npFileData = FALSE
  /\ npPreview = FALSE
  /\ npLoading = TRUE
  /\ npTraining = FALSE
  /\ npError = Null
  /\ npTrainingStatus = Null
  /\ npActiveStep = 0
  /\ npPollingInterval = NoInterval
  /\ npCleanup = NoInterval
  /\ npFileLoad = "idle"
  /\ npTrainReq = FALSE
  /\ npLoops = [i \in NPLoopIds |-> NoLoop]
  /\ npNow = 0
  /\ npCalls = 0
  /\ npLastAnswer = NoAnswer
  /\ npOp = "render"
  /\ npToken = "tokNoExp"
  /\ npHref = Null

\* The training page is not open.
NPQuiet ==
  /\ npMounted = FALSE
  /\ npEffectRan = FALSE
  /\ npFileId = "f1"
  /\ npOnModelTrained = FALSE
  /\ npFileData = FALSE
  /\ npPreview = FALSE
  /\ npLoading = TRUE
  /\ npTraining = FALSE
  /\ npError = Null
  /\ npTrainingStatus = Null
  /\ npActiveStep = 0
  /\ npPollingInterval = NoInterval
  /\ npCleanup = NoInterval
  /\ npFileLoad = "idle"
  /\ npTrainReq = FALSE
  /\ npLoops = [i \in NPLoopIds |-> NoLoop]
  /\ npNow = 0
  /\ npCalls = 0
  /\ npLastAnswer = NoAnswer
  /\ npOp = "render"
  /\ npToken = Null
  /\ npHref = Null

\* clearInterval(id)
ClearInterval(loops, id) ==
  [i \in NPLoopIds |-> IF i = id THEN [loops[i] EXCEPT !.active = FALSE]
                       ELSE loops[i]]

\* The cleanup returned by the effect: it clears the interval whose id the
\* effect's render saw in pollingInterval.
EffectCleanup(loops, captured) ==
  IF captured # NoInterval THEN ClearInterval(loops, captured) ELSE loops

\* A state setter of a component that is no longer mounted does nothing.
NPSet(old, new) == IF npMounted THEN new ELSE old

\* useEffect(..., [fileId]) after the first render: loadFileData() up to its
\* first await.
NPMountEffect ==
  /\ npMounted /\ ~npEffectRan
  /\ npOp' = "effect"
  /\ npEffectRan' = TRUE
  /\ npLoading' = TRUE
  /\ npError' = Null
  /\ npFileLoad' = "info"
  /\ npCleanup' = npPollingInterval
  /\ UNCHANGED <<npMounted, npFileId, npOnModelTrained, npFileData, npPreview, npTraining,
                 npTrainingStatus, npActiveStep, npPollingInterval,
                 npTrainReq, npLoops, npNow, npCalls, npLastAnswer, npToken,
                 npHref>>

\* loadFileData after await fileService.getFileById / getFilePreview
NPFileLoaded(resp) ==
  /\ npFileLoad \in {"info", "preview"}
  /\ resp \in PlainOk \cup Failures
  /\ npOp' = "fileLoaded"
  /\ LET i == NResponseInterceptor(resp, npToken) IN
       /\ npToken' = i.token
       /\ npHref' = IF i.href # Null THEN i.href ELSE npHref
       /\ IF i.stage = "resolved" /\ npFileLoad = "info"
          THEN /\ npFileLoad' = "preview"
               /\ npFileData' = NPSet(npFileData, TRUE)
               /\ UNCHANGED <<npPreview, npLoading, npError>>
          ELSE /\ npFileLoad' = "idle"
               /\ npPreview' = IF i.stage = "resolved"
                               THEN NPSet(npPreview, TRUE) ELSE npPreview
               /\ UNCHANGED npFileData
               /\ npLoading' = NPSet(npLoading, FALSE)
               /\ npError' = IF i.stage = "resolved" THEN npError
                             ELSE NPSet(npError,
                                    IF resp.detail # Null THEN resp.detail
                                    ELSE "Error al cargar datos del archivo")
  /\ UNCHANGED <<npMounted, npEffectRan, npFileId, npOnModelTrained,
                 npTraining, npTrainingStatus, npActiveStep,
                 npPollingInterval, npCleanup, npTrainReq, npLoops, npNow,
                 npCalls, npLastAnswer>>

\* The parent renders the component with another fileId: the cleanup of the
\* previous effect runs, then the effect runs again.
NPFileIdChange(f) ==
  /\ npMounted /\ npEffectRan
  /\ npHref = Null
  /\ npFileLoad = "idle"
  /\ f \in NPFileIds /\ f # npFileId
  /\ npOp' = "fileId"
  /\ npFileId' = f
  /\ npLoops' = EffectCleanup(npLoops, npCleanup)
  /\ npCleanup' = npPollingInterval
  /\ npLoading' = TRUE
  /\ npError' = Null
  /\ npFileLoad' = "info"
  /\ UNCHANGED <<npMounted, npEffectRan, npOnModelTrained, npFileData, npPreview, npTraining,
                 npTrainingStatus, npActiveStep, npPollingInterval,
                 npTrainReq, npNow, npCalls, npLastAnswer, npToken, npHref>>

\* The parent removes the component: the cleanup of the last effect runs.
NPUnmount ==
  /\ npMounted /\ npEffectRan
  /\ npHref = Null
  /\ npOp' = "unmount"
  /\ npMounted' = FALSE
  /\ npLoops' = EffectCleanup(npLoops, npCleanup)
  /\ UNCHANGED <<npEffectRan, npFileId, npOnModelTrained, npFileData, npPreview, npLoading,
                 npTraining, npError, npTrainingStatus, npActiveStep,
                 npPollingInterval, npCleanup, npFileLoad, npTrainReq, npNow,
                 npCalls, npLastAnswer, npToken, npHref>>

\* handleTrainModel up to await mlModelService.trainModel(modelConfig).  The
\* button is disabled while training is set or a column is not selected, so
\* the validation branch of the handler is never taken.
NPTrainModel ==
  /\ npMounted /\ npEffectRan
  /\ npHref = Null
  /\ ~npLoading /\ npFileData /\ npPreview
  /\ npActiveStep = 0 /\ ~npTraining
  /\ \E i \in NPLoopIds : ~npLoops[i].set
  /\ npOp' = "train"
  /\ npTraining' = TRUE
  /\ npError' = Null
  /\ npTrainReq' = TRUE
  /\ UNCHANGED <<npMounted, npEffectRan, npFileId, npOnModelTrained, npFileData, npPreview,
                 npLoading, npTrainingStatus, npActiveStep,
                 npPollingInterval, npCleanup, npFileLoad, npLoops, npNow,
                 npCalls, npLastAnswer, npToken, npHref>>

\* handleTrainModel after the await: the interval is set, or the catch runs.
NPTrainStarted(resp) ==
  /\ npTrainReq
  /\ resp \in NTrainOk \cup Failures
  /\ npOp' = "trainStarted"
  /\ npTrainReq' = FALSE
  /\ LET i == NResponseInterceptor(resp, npToken)
         id == CHOOSE k \in NPLoopIds :
                 ~npLoops[k].set /\ \A j \in NPLoopIds : j < k => npLoops[j].set
     IN
       /\ npToken' = i.token
       /\ npHref' = IF i.href # Null THEN i.href ELSE npHref
       /\ IF i.stage = "resolved"
          THEN /\ npTrainingStatus' = NPSet(npTrainingStatus, resp.data)
               /\ npActiveStep' = NPSet(npActiveStep, 1)
               /\ npLoops' = [npLoops EXCEPT ![id] =
                                [set |-> TRUE, active |-> TRUE,
                                 due |-> npNow + TrainingPollMs,
                                 inFlight |-> 0, sent |-> 0,
                                 first |-> npNow + TrainingPollMs]]
               /\ npPollingInterval' = NPSet(npPollingInterval, id)
               /\ UNCHANGED <<npError, npTraining>>
          ELSE /\ npError' = NPSet(npError,
                               IF resp.detail # Null THEN resp.detail
                               ELSE "Error al entrenar modelo")
               /\ npTraining' = NPSet(npTraining, FALSE)
               /\ UNCHANGED <<npTrainingStatus, npActiveStep, npLoops,
                              npPollingInterval>>
  /\ UNCHANGED <<npMounted, npEffectRan, npFileId, npOnModelTrained, npFileData, npPreview,
                 npLoading, npCleanup, npFileLoad, npNow, npCalls,
                 npLastAnswer>>

\* The interval callback up to await mlModelService.getModelById(...)
NPollTick(id) ==
  /\ npLoops[id].active
  /\ npLoops[id].due = npNow
  /\ npLoops[id].inFlight < MaxPending
  /\ npOp' = "tick"
  /\ npLoops' = [npLoops EXCEPT ![id].inFlight = @ + 1,
                                ![id].sent = @ + 1,
                                ![id].due = npNow + TrainingPollMs]
  /\ UNCHANGED <<npMounted, npEffectRan, npFileId, npOnModelTrained, npFileData, npPreview,
                 npLoading, npTraining, npError, npTrainingStatus,
                 npActiveStep, npPollingInterval, npCleanup, npFileLoad,
                 npTrainReq, npNow, npCalls, npLastAnswer, npToken, npHref>>

\* The interval callback after the await, with the response interceptor.
NPollAnsweredMutant(id, resp) ==
  /\ npLoops[id].inFlight > 0
  /\ resp \in NPollOk \cup NPollFailures
  /\ npOp' = "answered"
  /\ npLastAnswer' = [loop |-> id, resp |-> resp]
  /\ LET i == NResponseInterceptor(resp, npToken)
         received == [npLoops EXCEPT ![id].inFlight = @ - 1]
     IN
       /\ npToken' = i.token
       /\ npHref' = IF i.href # Null THEN i.href ELSE npHref
       /\ IF i.stage = "resolved" /\ resp.data = "completed"
          THEN /\ npLoops' = ClearInterval(received, id)
               /\ npPollingInterval' = NPSet(npPollingInterval, NoInterval)
               /\ npTrainingStatus' = NPSet(npTrainingStatus, resp.data)
               /\ npCalls' = IF npOnModelTrained /\ resp.data = "completed"
                             THEN npCalls + 1 ELSE npCalls
               /\ npError' = IF resp.data = "failed"
                             THEN NPSet(npError, TrainingFailedMessage)
                             ELSE npError
          ELSE /\ npLoops' = received
               /\ UNCHANGED <<npPollingInterval, npTrainingStatus, npCalls,
                              npError>>
  /\ UNCHANGED <<npMounted, npEffectRan, npFileId, npOnModelTrained, npFileData, npPreview,
                 npLoading, npTraining, npActiveStep, npCleanup, npFileLoad,
                 npTrainReq, npNow>>

NPollAnswered(id, resp) ==
  /\ npLoops[id].inFlight > 0
  /\ resp \in NPollOk \cup NPollFailures
  /\ npOp' = "answered"
  /\ npLastAnswer' = [loop |-> id, resp |-> resp]
  /\ LET i == NResponseInterceptor(resp, npToken)
         received == [npLoops EXCEPT ![id].inFlight = @ - 1]
     IN
       /\ npToken' = i.token
       /\ npHref' = IF i.href # Null THEN i.href ELSE npHref
       /\ IF i.stage = "resolved" /\ resp.data \in {"completed", "failed"}
          THEN /\ npLoops' = ClearInterval(received, id)
               /\ npPollingInterval' = NPSet(npPollingInterval, NoInterval)
               /\ npTrainingStatus' = NPSet(npTrainingStatus, resp.data)
               /\ npCalls' = IF npOnModelTrained /\ resp.data = "completed"
                             THEN npCalls + 1 ELSE npCalls
               /\ npError' = IF resp.data = "failed"
                             THEN NPSet(npError, TrainingFailedMessage)
                             ELSE npError
          ELSE /\ npLoops' = received
               /\ UNCHANGED <<npPollingInterval, npTrainingStatus, npCalls,
                              npError>>
  /\ UNCHANGED <<npMounted, npEffectRan, npFileId, npOnModelTrained, npFileData, npPreview,
                 npLoading, npTraining, npActiveStep, npCleanup, npFileLoad,
                 npTrainReq, npNow>>

\* handleReset ("Entrenar Otro Modelo", shown for a completed training)
NPReset ==
  /\ npMounted /\ npEffectRan
  /\ npHref = Null
  /\ ~npLoading /\ npFileData /\ npPreview
  /\ npActiveStep = 1 /\ npTrainingStatus = "completed"
  /\ npOp' = "reset"
  /\ npTrainingStatus' = Null
  /\ npActiveStep' = 0
  /\ npError' = Null
  /\ npTraining' = FALSE
  /\ UNCHANGED <<npMounted, npEffectRan, npFileId, npOnModelTrained, npFileData, npPreview,
                 npLoading, npPollingInterval, npCleanup, npFileLoad,
                 npTrainReq, npLoops, npNow, npCalls, npLastAnswer, npToken,
                 npHref>>

\* Time passes to the next multiple of the interval; an interval that is due
\* fires before time passes.
NPPass ==
  /\ npEffectRan
  /\ \A i \in NPLoopIds : ~(npLoops[i].active /\ npLoops[i].due = npNow)
  /\ npNow < MaxPollClock * TrainingPollMs
  /\ npOp' = "pass"
  /\ npNow' = npNow + TrainingPollMs
  /\ UNCHANGED <<npMounted, npEffectRan, npFileId, npOnModelTrained, npFileData, npPreview,
                 npLoading, npTraining, npError, npTrainingStatus,
                 npActiveStep, npPollingInterval, npCleanup, npFileLoad,
                 npTrainReq, npLoops, npCalls, npLastAnswer, npToken, npHref>>

\* window.location.href = '/login' takes effect: the document, its timers and
\* its pending requests are gone.
NPUnload ==
  /\ npHref # Null
  /\ npOp' = "unload"
  /\ npMounted' = FALSE
  /\ npFileLoad' = "idle"
  /\ npTrainReq' = FALSE
  /\ npLoops' = [i \in NPLoopIds |->
                   [npLoops[i] EXCEPT !.active = FALSE, !.inFlight = 0]]
  /\ npHref' = Null
  /\ UNCHANGED <<npEffectRan, npFileId, npOnModelTrained, npFileData, npPreview, npLoading,
                 npTraining, npError, npTrainingStatus, npActiveStep,
                 npPollingInterval, npCleanup, npNow, npCalls, npLastAnswer,
                 npToken>>

\* ------------------------------------------------------------------------
\* Nissan frontend: components/ml/ModelsList.js
\* ------------------------------------------------------------------------

\* setInterval(..., 5000)
ListReloadMs == 5000

\* Bound on the clock of a list page, in reload intervals.
MaxListClock == 1

\* Bound on the list requests that are outstanding at the same time.
MaxLoads == 1

\* Bound on the delete requests that are outstanding at the same time.
MaxDeletes == 2

MLFileIds == {"f1", "f2"}

\* A model of the list: its id and its training_status.
MLModel(id, status) == [id |-> id, training_status |-> status]

\* useState(null) of modelToDelete
NoModel == MLModel(Null, Null)

\* Answers of mlModelService.getModels: the lists the backend returns.
MLLists ==
  { {},
    {MLModel("m1", "training")},
    {MLModel("m1", "pending"), MLModel("m2", "completed")},
    {MLModel("m1", "completed"), MLModel("m2", "failed")} }

MLListOk == {[status |-> 200, detail |-> Null, data |-> l] : l \in MLLists}

\* models.some(model => model.training_status === 'pending' ||
\*                      model.training_status === 'training')
hasTrainingModels(models) ==
  \E model \in models : model.training_status \in {"pending", "training"}

\* No response has been handled yet.
NoAnswered == NoResp.status

\* No interval has been set.
NoListInterval == [active |-> FALSE, due |-> 0, models |-> {}]

VARIABLES
  list,                 \* the list component that is mounted: "models" | "files"
  mlMounted,            \* the component instance is mounted
  mlEffectRan,          \* the effect of the first render has run
  mlFileId,             \* prop fileId
  mlModels,             \* component state
  mlLoading,
  mlError,
  mlDeleteDialogOpen,
  mlModelToDelete,
  mlDeleting,
  mlInterval,           \* the interval of the effect and the models its callback sees
  mlLoads,              \* getModels requests that are outstanding
  mlDeletes,            \* pending handleDeleteConfirm calls: what each closure sees
  mlNow,                \* ms on the clock of the document
  mlOp,                 \* the handler that ran last
  mlAnswer,             \* status of the response handled last
  mlToken,              \* localStorage 'token'
  mlHref                \* URL assigned to window.location.href, not yet loaded

mlvars == <<mlMounted, mlEffectRan, mlFileId, mlModels, mlLoading, mlError,
            mlDeleteDialogOpen, mlModelToDelete, mlDeleting, mlInterval,
            mlLoads, mlDeletes, mlNow, mlOp, mlAnswer, mlToken, mlHref>>

MLInit ==
  /\ mlMounted = TRUE
  /\ mlEffectRan = FALSE
  /\ mlFileId = "f1"
  /\ mlModels = {}
  /\ mlLoading = TRUE
  /\ mlError = Null
  /\ mlDeleteDialogOpen = FALSE
  /\ mlModelToDelete = NoModel
  /\ mlDeleting = FALSE
  /\ mlInterval = NoListInterval
  /\ mlLoads = 0
  /\ mlDeletes = <<>>
  /\ mlNow = 0
  /\ mlOp = "render"
  /\ mlAnswer = NoAnswered
  /\ mlToken = "tokNoExp"
  /\ mlHref = Null

\* The models page is not open.
MLQuiet ==
  /\ mlMounted = FALSE
  /\ mlEffectRan = FALSE
  /\ mlFileId = "f1"
  /\ mlModels = {}
  /\ mlLoading = TRUE
  /\ mlError = Null
  /\ mlDeleteDialogOpen = FALSE
  /\ mlModelToDelete = NoModel
  /\ mlDeleting = FALSE
  /\ mlInterval = NoListInterval
  /\ mlLoads = 0
  /\ mlDeletes = <<>>
  /\ mlNow = 0
  /\ mlOp = "render"
  /\ mlAnswer = NoAnswered
  /\ mlToken = Null
  /\ mlHref = Null

\* A state setter of a component that is no longer mounted does nothing.
MLSet(old, new) == IF mlMounted THEN new ELSE old

\* The list and its dialog are rendered: the component returns only the
\* spinner while loading is set.
MLShown == mlMounted /\ mlEffectRan /\ ~mlLoading /\ mlHref = Null

\* A sequence without its k-th element.
RemoveAt(s, k) == SubSeq(s, 1, k - 1) \o SubSeq(s, k + 1, Len(s))

\* useEffect(..., [fileId]) after the first render: loadModels() up to its
\* await, then setInterval with a callback that sees the models of this render.
MLMountEffect ==
  /\ mlMounted /\ ~mlEffectRan
  /\ mlOp' = "effect"
  /\ UNCHANGED mlAnswer
  /\ mlEffectRan' = TRUE
  /\ mlLoading' = TRUE
  /\ mlError' = Null
  /\ mlLoads' = mlLoads + 1
  /\ mlInterval' = [active |-> TRUE, due |-> mlNow + ListReloadMs,
                    models |-> mlModels]
  /\ UNCHANGED <<mlMounted, mlFileId, mlModels, mlDeleteDialogOpen,
                 mlModelToDelete, mlDeleting, mlDeletes, mlNow, mlToken, mlHref>>

\* loadModels after await mlModelService.getModels(fileId), with the response
\* interceptor.
MLLoadAnswered(resp) ==
  /\ mlLoads > 0
  /\ resp \in MLListOk \cup Failures
  /\ mlOp' = "loaded"
  /\ mlAnswer' = resp.status
  /\ mlLoads' = mlLoads - 1
  /\ LET i == NResponseInterceptor(resp, mlToken)
     IN
       /\ mlToken' = i.token
       /\ mlHref' = IF i.href # Null THEN i.href ELSE mlHref
       /\ IF i.stage = "resolved"
          THEN /\ mlModels' = MLSet(mlModels, resp.data)
               /\ mlError' = mlError
          ELSE /\ mlError' = MLSet(mlError,
                                   IF resp.detail # Null THEN resp.detail
                                   ELSE "Error al cargar modelos")
               /\ mlModels' = mlModels
  /\ mlLoading' = MLSet(mlLoading, FALSE)
  /\ UNCHANGED <<mlMounted, mlEffectRan, mlFileId, mlDeleteDialogOpen,
                 mlModelToDelete, mlDeleting, mlInterval, mlDeletes, mlNow>>

\* The interval callback: it reloads when the models it sees hold one that is
\* pending or training.
MLTick ==
  /\ mlInterval.active
  /\ mlInterval.due = mlNow
  /\ mlOp' = "tick"
  /\ UNCHANGED mlAnswer
  /\ mlInterval' = [mlInterval EXCEPT !.due = mlNow + ListReloadMs]
  /\ IF hasTrainingModels(mlInterval.models)
     THEN /\ mlLoads < MaxLoads
          /\ mlLoading' = MLSet(mlLoading, TRUE)
          /\ mlError' = MLSet(mlError, Null)
          /\ mlLoads' = mlLoads + 1
     ELSE UNCHANGED <<mlLoading, mlError, mlLoads>>
  /\ UNCHANGED <<mlMounted, mlEffectRan, mlFileId, mlModels,
                 mlDeleteDialogOpen, mlModelToDelete, mlDeleting, mlDeletes,
                 mlNow, mlToken, mlHref>>

\* The parent renders the component with another fileId: the cleanup clears
\* the interval, the effect runs again and its callback sees the models of
\* this render.
MLFileIdChange(f) ==
  /\ mlMounted /\ mlEffectRan
  /\ mlHref = Null
  /\ mlLoads < MaxLoads
  /\ f \in MLFileIds /\ f # mlFileId
  /\ mlOp' = "fileId"
  /\ UNCHANGED mlAnswer
  /\ mlFileId' = f
  /\ mlLoading' = TRUE
  /\ mlError' = Null
  /\ mlLoads' = mlLoads + 1
  /\ mlInterval' = [active |-> TRUE, due |-> mlNow + ListReloadMs,
                    models |-> mlModels]
  /\ UNCHANGED <<mlMounted, mlEffectRan, mlModels, mlDeleteDialogOpen,
                 mlModelToDelete, mlDeleting, mlDeletes, mlNow, mlToken, mlHref>>

\* The parent removes the component: return () => clearInterval(interval)
MLUnmount ==
  /\ mlMounted /\ mlEffectRan
  /\ mlHref = Null
  /\ mlOp' = "unmount"
  /\ UNCHANGED mlAnswer
  /\ mlMounted' = FALSE
  /\ mlInterval' = [mlInterval EXCEPT !.active = FALSE]
  /\ UNCHANGED <<mlEffectRan, mlFileId, mlModels, mlLoading, mlError,
                 mlDeleteDialogOpen, mlModelToDelete, mlDeleting, mlLoads,
                 mlDeletes, mlNow, mlToken, mlHref>>

\* handleDeleteClick(model), from the delete button of a row; the open dialog
\* is modal and covers the rows.
MLDeleteClick(model) ==
  /\ MLShown
  /\ ~mlDeleteDialogOpen
  /\ model \in mlModels
  /\ mlOp' = "deleteClick"
  /\ UNCHANGED mlAnswer
  /\ mlModelToDelete' = model
  /\ mlDeleteDialogOpen' = TRUE
  /\ UNCHANGED <<mlMounted, mlEffectRan, mlFileId, mlModels, mlLoading,
                 mlError, mlDeleting, mlInterval, mlLoads, mlDeletes, mlNow,
                 mlToken, mlHref>>

\* handleCloseDialog, from the dialog's onClose (backdrop, Escape) or from its
\* Cancel button.
MLCloseDialog ==
  /\ MLShown
  /\ mlDeleteDialogOpen
  /\ mlOp' = "closeDialog"
  /\ UNCHANGED mlAnswer
  /\ mlDeleteDialogOpen' = FALSE
  /\ mlModelToDelete' = NoModel
  /\ UNCHANGED <<mlMounted, mlEffectRan, mlFileId, mlModels, mlLoading,
                 mlError, mlDeleting, mlInterval, mlLoads, mlDeletes, mlNow,
                 mlToken, mlHref>>

\* handleDeleteConfirm up to await mlModelService.deleteModel; the button is
\* disabled while deleting is set.
MLDeleteConfirm ==
  /\ MLShown
  /\ mlDeleteDialogOpen
  /\ ~mlDeleting
  /\ mlModelToDelete # NoModel
  /\ Len(mlDeletes) < MaxDeletes
  /\ mlOp' = "deleteConfirm"
  /\ UNCHANGED mlAnswer
  /\ mlDeleting' = TRUE
  /\ mlDeletes' = Append(mlDeletes,
                         [model |-> mlModelToDelete, models |-> mlModels])
  /\ UNCHANGED <<mlMounted, mlEffectRan, mlFileId, mlModels, mlLoading,
                 mlError, mlDeleteDialogOpen, mlModelToDelete, mlInterval,
                 mlLoads, mlNow, mlToken, mlHref>>

\* handleDeleteConfirm after the await, with the response interceptor: the
\* models and the modelToDelete are those of the render of the click.
MLDeleteAnswered(k, resp) ==
  /\ k \in 1 .. Len(mlDeletes)
  /\ resp \in PlainOk \cup Failures
  /\ mlOp' = "deleted"
  /\ mlAnswer' = resp.status
  /\ mlDeletes' = RemoveAt(mlDeletes, k)
  /\ LET i == NResponseInterceptor(resp, mlToken)
         call == mlDeletes[k]
     IN
       /\ mlToken' = i.token
       /\ mlHref' = IF i.href # Null THEN i.href ELSE mlHref
       /\ IF i.stage = "resolved"
          THEN /\ mlModels' = MLSet(mlModels,
                                    {model \in call.models :
                                       model.id # call.model.id})
               /\ mlError' = mlError
          ELSE /\ mlError' = MLSet(mlError,
                                   IF resp.detail # Null THEN resp.detail
                                   ELSE "Error al eliminar modelo")
               /\ mlModels' = mlModels
  /\ mlDeleting' = MLSet(mlDeleting, FALSE)
  /\ mlDeleteDialogOpen' = MLSet(mlDeleteDialogOpen, FALSE)
  /\ mlModelToDelete' = MLSet(mlModelToDelete, NoModel)
  /\ UNCHANGED <<mlMounted, mlEffectRan, mlFileId, mlLoading, mlInterval,
                 mlLoads, mlNow>>

\* Time passes to the next multiple of the interval; an interval that is due
\* fires before time passes.
MLPass ==
  /\ mlEffectRan
  /\ ~(mlInterval.active /\ mlInterval.due = mlNow)
  /\ mlNow < MaxListClock * ListReloadMs
  /\ mlOp' = "pass"
  /\ UNCHANGED mlAnswer
  /\ mlNow' = mlNow + ListReloadMs
  /\ UNCHANGED <<mlMounted, mlEffectRan, mlFileId, mlModels, mlLoading,
                 mlError, mlDeleteDialogOpen, mlModelToDelete, mlDeleting,
                 mlInterval, mlLoads, mlDeletes, mlToken, mlHref>>

\* window.location.href = '/login' takes effect: the document, its timers and
\* its pending requests are gone.
MLUnload ==
  /\ mlHref # Null
  /\ mlOp' = "unload"
  /\ UNCHANGED mlAnswer
  /\ mlMounted' = FALSE
  /\ mlInterval' = [mlInterval EXCEPT !.active = FALSE]
  /\ mlLoads' = 0
  /\ mlDeletes' = <<>>
  /\ mlHref' = Null
  /\ UNCHANGED <<mlEffectRan, mlFileId, mlModels, mlLoading, mlError,
                 mlDeleteDialogOpen, mlModelToDelete, mlDeleting, mlNow,
                 mlToken>>

\* ------------------------------------------------------------------------
\* Nissan frontend: FilesList
\* ------------------------------------------------------------------------

\* A file of the list.
FLFile(id) == [id |-> id]

\* useState(null) of fileToDelete
NoFile == FLFile(Null)

\* Answers of fileService.getFiles: the lists the backend returns.
FLLists == { {}, {FLFile("a")}, {FLFile("a"), FLFile("b")} }

FLListOk == {[status |-> 200, detail |-> Null, data |-> l] : l \in FLLists}

VARIABLES
  flMounted,            \* the component instance is mounted
  flEffectRan,          \* the effect of the first render has run
  flOnRefreshNeeded,    \* prop onRefreshNeeded was given
  flFiles,              \* component state
  flLoading,
  flError,
  flDeleteDialogOpen,
  flFileToDelete,
  flDeleting,
  flLoads,              \* getFiles requests that are outstanding
  flDeletes,            \* pending handleDeleteConfirm calls: what each closure sees
  flRefreshNotified,    \* the last handler called onRefreshNeeded
  flOp,                 \* the handler that ran last
  flAnswer,             \* status of the response handled last
  flToken,              \* localStorage 'token'
  flHref                \* URL assigned to window.location.href, not yet loaded

flvars == <<flMounted, flEffectRan, flOnRefreshNeeded, flFiles, flLoading,
            flError, flDeleteDialogOpen, flFileToDelete, flDeleting, flLoads,
            flDeletes, flRefreshNotified, flOp, flAnswer, flToken, flHref>>

FLInit ==
  /\ flMounted = TRUE
  /\ flEffectRan = FALSE
  /\ flOnRefreshNeeded \in BOOLEAN
  /\ flFiles = {}
  /\ flLoading = TRUE
  /\ flError = Null
  /\ flDeleteDialogOpen = FALSE
  /\ flFileToDelete = NoFile
  /\ flDeleting = FALSE
  /\ flLoads = 0
  /\ flDeletes = <<>>
  /\ flRefreshNotified = FALSE
  /\ flOp = "render"
  /\ flAnswer = NoAnswered
  /\ flToken = "tokNoExp"
  /\ flHref = Null

\* The files page is not open.
FLQuiet ==
  /\ flMounted = FALSE
  /\ flEffectRan = FALSE
  /\ flOnRefreshNeeded = FALSE
  /\ flFiles = {}
  /\ flLoading = TRUE
  /\ flError = Null
  /\ flDeleteDialogOpen = FALSE
  /\ flFileToDelete = NoFile
  /\ flDeleting = FALSE
  /\ flLoads = 0
  /\ flDeletes = <<>>
  /\ flRefreshNotified = FALSE
  /\ flOp = "render"
  /\ flAnswer = NoAnswered
  /\ flToken = Null
  /\ flHref = Null

\* A state setter of a component that is no longer mounted does nothing.
FLSet(old, new) == IF flMounted THEN new ELSE old

\* The list and its dialog are rendered: the component returns only the
\* spinner while loading is set.
FLShown == flMounted /\ flEffectRan /\ ~flLoading /\ flHref = Null

\* useEffect(..., []) after the first render: loadFiles() up to its await.
FLMountEffect ==
  /\ flMounted /\ ~flEffectRan
  /\ flOp' = "effect"
  /\ UNCHANGED flAnswer
  /\ flEffectRan' = TRUE
  /\ flLoading' = TRUE
  /\ flError' = Null
  /\ flLoads' = flLoads + 1
  /\ flRefreshNotified' = FALSE
  /\ UNCHANGED <<flMounted, flOnRefreshNeeded, flFiles, flDeleteDialogOpen,
                 flFileToDelete, flDeleting, flDeletes, flToken, flHref>>

\* loadFiles after await fileService.getFiles(), with the response interceptor.
FLLoadAnswered(resp) ==
  /\ flLoads > 0
  /\ resp \in FLListOk \cup Failures
  /\ flOp' = "loaded"
  /\ flAnswer' = resp.status
  /\ flLoads' = flLoads - 1
  /\ flRefreshNotified' = FALSE
  /\ LET i == NResponseInterceptor(resp, flToken)
     IN
       /\ flToken' = i.token
       /\ flHref' = IF i.href # Null THEN i.href ELSE flHref
       /\ IF i.stage = "resolved"
          THEN /\ flFiles' = FLSet(flFiles, resp.data)
               /\ flError' = flError
          ELSE /\ flError' = FLSet(flError,
                                   IF resp.detail # Null THEN resp.detail
                                   ELSE "Error al cargar archivos")
               /\ flFiles' = flFiles
  /\ flLoading' = FLSet(flLoading, FALSE)
  /\ UNCHANGED <<flMounted, flEffectRan, flOnRefreshNeeded,
                 flDeleteDialogOpen, flFileToDelete, flDeleting, flDeletes>>

\* The parent removes the component.
FLUnmount ==
  /\ flMounted /\ flEffectRan
  /\ flHref = Null
  /\ flOp' = "unmount"
  /\ UNCHANGED flAnswer
  /\ flMounted' = FALSE
  /\ flRefreshNotified' = FALSE
  /\ UNCHANGED <<flEffectRan, flOnRefreshNeeded, flFiles, flLoading, flError,
                 flDeleteDialogOpen, flFileToDelete, flDeleting, flLoads,
                 flDeletes, flToken, flHref>>

\* handleDeleteClick(file), from the delete button of a row; the open dialog
\* is modal and covers the rows.
FLDeleteClick(file) ==
  /\ FLShown
  /\ ~flDeleteDialogOpen
  /\ file \in flFiles
  /\ flOp' = "deleteClick"
  /\ UNCHANGED flAnswer
  /\ flFileToDelete' = file
  /\ flDeleteDialogOpen' = TRUE
  /\ flRefreshNotified' = FALSE
  /\ UNCHANGED <<flMounted, flEffectRan, flOnRefreshNeeded, flFiles,
                 flLoading, flError, flDeleting, flLoads, flDeletes, flToken,
                 flHref>>

\* handleCloseDialog, from the dialog's onClose (backdrop, Escape) or from its
\* Cancel button.
FLCloseDialog ==
  /\ FLShown
  /\ flDeleteDialogOpen
  /\ flOp' = "closeDialog"
  /\ UNCHANGED flAnswer
  /\ flDeleteDialogOpen' = FALSE
  /\ flFileToDelete' = NoFile
  /\ flRefreshNotified' = FALSE
  /\ UNCHANGED <<flMounted, flEffectRan, flOnRefreshNeeded, flFiles,
                 flLoading, flError, flDeleting, flLoads, flDeletes, flToken,
                 flHref>>

\* handleDeleteConfirm up to await fileService.deleteFile; the button is
\* disabled while deleting is set.
FLDeleteConfirm ==
  /\ FLShown
  /\ flDeleteDialogOpen
  /\ ~flDeleting
  /\ flFileToDelete # NoFile
  /\ Len(flDeletes) < MaxDeletes
  /\ flOp' = "deleteConfirm"
  /\ UNCHANGED flAnswer
  /\ flDeleting' = TRUE
  /\ flDeletes' = Append(flDeletes,
                         [file |-> flFileToDelete, files |-> flFiles])
  /\ flRefreshNotified' = FALSE
  /\ UNCHANGED <<flMounted, flEffectRan, flOnRefreshNeeded, flFiles,
                 flLoading, flError, flDeleteDialogOpen, flFileToDelete,
                 flLoads, flToken, flHref>>

\* handleDeleteConfirm after the await, with the response interceptor: the
\* files and the fileToDelete are those of the render of the click.
FLDeleteAnswered(k, resp) ==
  /\ k \in 1 .. Len(flDeletes)
  /\ resp \in PlainOk \cup Failures
  /\ flOp' = "deleted"
  /\ flAnswer' = resp.status
  /\ flDeletes' = RemoveAt(flDeletes, k)
  /\ LET i == NResponseInterceptor(resp, flToken)
         call == flDeletes[k]
     IN
       /\ flToken' = i.token
       /\ flHref' = IF i.href # Null THEN i.href ELSE flHref
       /\ IF i.stage = "resolved"
          THEN /\ flFiles' = FLSet(flFiles,
                                   {file \in call.files :
                                      file.id # call.file.id})
               /\ flRefreshNotified' = flOnRefreshNeeded
               /\ flError' = flError
          ELSE /\ flError' = FLSet(flError,
                                   IF resp.detail # Null THEN resp.detail
                                   ELSE "Error al eliminar archivo")
               /\ flRefreshNotified' = FALSE
               /\ flFiles' = flFiles
  /\ flDeleting' = FLSet(flDeleting, FALSE)
  /\ flDeleteDialogOpen' = FLSet(flDeleteDialogOpen, FALSE)
  /\ flFileToDelete' = FLSet(flFileToDelete, NoFile)
  /\ UNCHANGED <<flMounted, flEffectRan, flOnRefreshNeeded, flLoading,
                 flLoads>>

\* window.location.href = '/login' takes effect: the document and its pending
\* requests are gone.
FLUnload ==
  /\ flHref # Null
  /\ flOp' = "unload"
  /\ UNCHANGED flAnswer
  /\ flMounted' = FALSE
  /\ flLoads' = 0
  /\ flDeletes' = <<>>
  /\ flHref' = Null
  /\ flRefreshNotified' = FALSE
  /\ UNCHANGED <<flEffectRan, flOnRefreshNeeded, flFiles, flLoading, flError,
                 flDeleteDialogOpen, flFileToDelete, flDeleting, flToken>>

\* The components outside the authentication, training and list pages.
listvars == <<list, mlvars, flvars>>

ListsQuiet == list = "none" /\ MLQuiet /\ FLQuiet

\* ------------------------------------------------------------------------
\* Nissan frontend: components/files/FileUpload.js
\* ------------------------------------------------------------------------

\* setInterval(..., 300) of the simulated progress
ProgressStepMs == 300

\* setTimeout(..., 3000) after a successful upload
ResetDelayMs == 3000

\* Bound on the uploads one component instance starts.
MaxUploads == 2

FUIntervalIds == 1 .. MaxUploads

\* Names of the files the user drops.
FUFileNames == {"data.csv", "DATA.CSV", "notes.txt"}

\* file.name.endsWith(suffix)
EndsWith(name, suffix) ==
  /\ Len(name) >= Len(suffix)
  /\ SubSeq(name, Len(name) - Len(suffix) + 1, Len(name)) = suffix

\* Answer of fileService.uploadFile: the file that was stored.
UploadOk == {[status |-> 200, detail |-> Null, data |-> "file"]}

\* No file has been dropped yet.
NoDrop == [name |-> Null, accepted |-> FALSE]

\* An interval that setInterval has not created yet.
NoProgressInterval == [active |-> FALSE, due |-> FALSE]

VARIABLES
  fuMounted,          \* the component instance is mounted
  fuOnFileUploaded,   \* prop onFileUploaded was given
  fuUploading,        \* component state
  fuUploadProgress,
  fuError,
  fuSuccess,
  fuIntervals,        \* the progress intervals created by setInterval, by id:
                      \* set and not cleared, and due at this instant
  fuStarted,          \* uploads started so far: the id of the newest interval
  fuTimeouts,         \* ms left on the pending reset timeouts
  fuInFlight,         \* the interval id of the upload request that is pending, or 0
  fuNotified,         \* the last handler called onFileUploaded
  fuDrop,             \* the file of the drop handled in the last step, and whether
                      \* the dropzone accepted it
  fuOp,               \* the handler that ran last
  fuToken,            \* localStorage 'token'
  fuHref              \* URL assigned to window.location.href, not yet loaded

fuvars == <<fuMounted, fuOnFileUploaded, fuUploading, fuUploadProgress,
            fuError, fuSuccess, fuIntervals, fuStarted, fuTimeouts,
            fuInFlight, fuNotified, fuDrop, fuOp, fuToken, fuHref>>

FUInit ==
  /\ fuMounted = TRUE
  /\ fuOnFileUploaded \in BOOLEAN
  /\ fuUploading = FALSE
  /\ fuUploadProgress = 0
  /\ fuError = Null
  /\ fuSuccess = FALSE
  /\ fuIntervals = [i \in FUIntervalIds |-> NoProgressInterval]
  /\ fuStarted = 0
  /\ fuTimeouts = {}
  /\ fuInFlight = 0
  /\ fuNotified = FALSE
  /\ fuDrop = NoDrop
  /\ fuOp = "render"
  /\ fuToken = "tokNoExp"
  /\ fuHref = Null

\* The upload page is not open.
FUQuiet ==
  /\ fuMounted = FALSE
  /\ fuOnFileUploaded = FALSE
  /\ fuUploading = FALSE
  /\ fuUploadProgress = 0
  /\ fuError = Null
  /\ fuSuccess = FALSE
  /\ fuIntervals = [i \in FUIntervalIds |-> NoProgressInterval]
  /\ fuStarted = 0
  /\ fuTimeouts = {}
  /\ fuInFlight = 0
  /\ fuNotified = FALSE
  /\ fuDrop = NoDrop
  /\ fuOp = "render"
  /\ fuToken = Null
  /\ fuHref = Null

\* onDrop(acceptedFiles) for a drop of one file, up to await
\* fileService.uploadFile(file).  The dropzone is disabled while uploading is
\* set; a file its accept filter rejects is not among acceptedFiles.
FUOnDropMutant(name, accepted) ==
  /\ fuMounted /\ fuHref = Null
  /\ ~fuUploading
  /\ name \in FUFileNames /\ accepted \in BOOLEAN
  /\ fuOp' = "drop"
  /\ fuDrop' = [name |-> name, accepted |-> accepted]
  /\ fuNotified' = FALSE
  /\ LET acceptedFiles == IF accepted THEN <<name>> ELSE <<>>
     IN
       IF acceptedFiles = <<>>
       THEN UNCHANGED <<fuUploading, fuUploadProgress, fuError, fuSuccess,
                        fuIntervals, fuStarted, fuInFlight>>
       ELSE /\ fuStarted < MaxUploads
            /\ fuError' = Null
            /\ fuSuccess' = FALSE
            /\ fuUploading' = TRUE
            /\ fuStarted' = fuStarted + 1
            /\ fuIntervals' = [fuIntervals EXCEPT ![fuStarted + 1] =
                                 [active |-> TRUE, due |-> FALSE]]
            /\ fuInFlight' = fuStarted + 1
            /\ UNCHANGED fuUploadProgress
  /\ UNCHANGED <<fuMounted, fuOnFileUploaded, fuTimeouts, fuToken, fuHref>>

FUOnDrop(name, accepted) ==
  /\ fuMounted /\ fuHref = Null
  /\ ~fuUploading
  /\ name \in FUFileNames /\ accepted \in BOOLEAN
  /\ fuOp' = "drop"
  /\ fuDrop' = [name |-> name, accepted |-> accepted]
  /\ fuNotified' = FALSE
  /\ LET acceptedFiles == IF accepted THEN <<name>> ELSE <<>>
     IN
       IF acceptedFiles = <<>>
       THEN UNCHANGED <<fuUploading, fuUploadProgress, fuError, fuSuccess,
                        fuIntervals, fuStarted, fuInFlight>>
       ELSE IF ~EndsWith(acceptedFiles[1], ".csv")
       THEN /\ fuError' = "Solo se permiten archivos CSV"
            /\ UNCHANGED <<fuUploading, fuUploadProgress, fuSuccess,
                           fuIntervals, fuStarted, fuInFlight>>
       ELSE /\ fuStarted < MaxUploads
            /\ fuError' = Null
            /\ fuSuccess' = FALSE
            /\ fuUploading' = TRUE
            /\ fuStarted' = fuStarted + 1
            /\ fuIntervals' = [fuIntervals EXCEPT ![fuStarted + 1] =
                                 [active |-> TRUE, due |-> FALSE]]
            /\ fuInFlight' = fuStarted + 1
            /\ UNCHANGED fuUploadProgress
  /\ UNCHANGED <<fuMounted, fuOnFileUploaded, fuTimeouts, fuToken, fuHref>>

\* The callback of a progress interval:
\* setUploadProgress(prev => prev >= 90 ? (clearInterval, 90) : prev + 10)
FUProgressTick(id) ==
  /\ fuIntervals[id].active
  /\ fuIntervals[id].due
  /\ fuOp' = "tick"
  /\ fuDrop' = NoDrop
  /\ fuNotified' = FALSE
  /\ IF fuUploadProgress >= 90
     THEN /\ fuIntervals' = [fuIntervals EXCEPT ![id] = NoProgressInterval]
          /\ fuUploadProgress' = 90
     ELSE /\ fuIntervals' = [fuIntervals EXCEPT ![id].due = FALSE]
          /\ fuUploadProgress' = fuUploadProgress + 10
  /\ UNCHANGED <<fuMounted, fuOnFileUploaded, fuUploading, fuError, fuSuccess,
                 fuStarted, fuTimeouts, fuInFlight, fuToken, fuHref>>

\* onDrop after the await, with the response interceptor.
FUUploadAnswered(resp) ==
  /\ fuInFlight # 0
  /\ resp \in UploadOk \cup Failures
  /\ fuOp' = "answered"
  /\ fuDrop' = NoDrop
  /\ fuInFlight' = 0
  /\ LET i == NResponseInterceptor(resp, fuToken)
     IN
       /\ fuToken' = i.token
       /\ fuHref' = IF i.href # Null THEN i.href ELSE fuHref
       /\ IF i.stage = "resolved"
          THEN /\ fuIntervals' = [fuIntervals EXCEPT
                                     ![fuInFlight] = NoProgressInterval]
               /\ fuUploadProgress' = 100
               /\ fuSuccess' = TRUE
               /\ fuNotified' = fuOnFileUploaded
               /\ fuTimeouts' = fuTimeouts \cup {ResetDelayMs}
               /\ UNCHANGED fuError
          ELSE /\ fuError' = IF resp.detail # Null THEN resp.detail
                             ELSE "Error al subir archivo"
               /\ fuNotified' = FALSE
               /\ UNCHANGED <<fuIntervals, fuUploadProgress, fuSuccess,
                              fuTimeouts>>
  /\ fuUploading' = FALSE
  /\ UNCHANGED <<fuMounted, fuOnFileUploaded, fuStarted>>

\* The callback of setTimeout(..., 3000): setUploadProgress(0), setSuccess(false)
FUResetTimeout ==
  /\ 0 \in fuTimeouts
  /\ fuOp' = "reset"
  /\ fuDrop' = NoDrop
  /\ fuTimeouts' = fuTimeouts \ {0}
  /\ fuUploadProgress' = 0
  /\ fuSuccess' = FALSE
  /\ fuNotified' = FALSE
  /\ UNCHANGED <<fuMounted, fuOnFileUploaded, fuUploading, fuError,
                 fuIntervals, fuStarted, fuInFlight, fuToken, fuHref>>

\* 300 ms pass: every interval that is set becomes due and the timeouts have
\* 300 ms less to run; a timer that is due fires before time passes.
FUPass ==
  /\ fuMounted
  /\ \A i \in FUIntervalIds : ~fuIntervals[i].due
  /\ 0 \notin fuTimeouts
  /\ fuOp' = "pass"
  /\ fuDrop' = NoDrop
  /\ fuIntervals' = [i \in FUIntervalIds |->
                       [fuIntervals[i] EXCEPT !.due = fuIntervals[i].active]]
  /\ fuTimeouts' = {t - ProgressStepMs : t \in fuTimeouts}
  /\ fuNotified' = FALSE
  /\ UNCHANGED <<fuMounted, fuOnFileUploaded, fuUploading, fuUploadProgress,
                 fuError, fuSuccess, fuStarted, fuInFlight, fuToken, fuHref>>

\* window.location.href = '/login' takes effect: the document, its timers and
\* its pending requests are gone.
FUUnload ==
  /\ fuHref # Null
  /\ fuOp' = "unload"
  /\ fuDrop' = NoDrop
  /\ fuMounted' = FALSE
  /\ fuIntervals' = [i \in FUIntervalIds |-> NoProgressInterval]
  /\ fuTimeouts' = {}
  /\ fuInFlight' = 0
  /\ fuHref' = Null
  /\ fuNotified' = FALSE
  /\ UNCHANGED <<fuOnFileUploaded, fuUploading, fuUploadProgress, fuError,
                 fuSuccess, fuStarted, fuToken>>

\* ------------------------------------------------------------------------
\* Nissan frontend: components/auth/RegisterForm.js under PublicRoute
\* ------------------------------------------------------------------------

\* The routes of the pages that LoginForm and RegisterForm link to each other.
RGPublicPaths == {"/login", "/register"}

\* Answer of authService.register: the user that was created.
RegisterOk == PlainOk

\* No request of handleRegister is outstanding.
RGNoReq == [url |-> Null, email |-> Null]

VARIABLES
  rgToken,          \* localStorage 'token'
  rgCurrentUser,    \* AuthProvider state
  rgLoading,
  rgError,
  rgLocation,       \* router location
  rgForm,           \* a RegisterForm instance is mounted
  rgFormError,      \* the error state of the mounted RegisterForm instance
  rgCallerMounted,  \* the instance whose handleRegister is running is mounted
  rgReq,            \* the request handleRegister is waiting for
  rgNavigated,      \* the handler that ran last called navigate('/dashboard')
  rgHref,           \* URL assigned to window.location.href, not yet loaded
  rgOp,             \* the handler that ran last
  rgAnswer          \* the status of the response it handled

rgvars == <<rgToken, rgCurrentUser, rgLoading, rgError, rgLocation, rgForm,
            rgFormError, rgCallerMounted, rgReq, rgNavigated, rgHref, rgOp,
            rgAnswer>>

\* /register is open, the provider has finished initAuth without a token.
RGInit ==
  /\ rgToken = Null
  /\ rgCurrentUser = Null
  /\ rgLoading = FALSE
  /\ rgError = Null
  /\ rgLocation = "/register"
  /\ rgForm = TRUE
  /\ rgFormError = Null
  /\ rgCallerMounted = FALSE
  /\ rgReq = RGNoReq
  /\ rgNavigated = FALSE
  /\ rgHref = Null
  /\ rgOp = "render"
  /\ rgAnswer = NoAnswered

\* The register page is not open.
RGQuiet ==
  /\ rgToken = Null
  /\ rgCurrentUser = Null
  /\ rgLoading = FALSE
  /\ rgError = Null
  /\ rgLocation = Null
  /\ rgForm = FALSE
  /\ rgFormError = Null
  /\ rgCallerMounted = FALSE
  /\ rgReq = RGNoReq
  /\ rgNavigated = FALSE
  /\ rgHref = Null
  /\ rgOp = "render"
  /\ rgAnswer = NoAnswered

\* React renders after the state updates of a handler.  PublicRoute renders
\* its children only with loading false and no user: otherwise the
\* RegisterForm instance is unmounted, and a later render mounts a new one
\* whose error state is null.  caller: handleRegister's instance is mounted
\* before the render; sets: the handler called setError(value); running: the
\* handler goes on waiting after this step.
RGRender(loc, caller, sets, value, running) ==
  LET view == PublicRoute(rgLoading', rgCurrentUser' # Null)
      shown == loc = "/register" /\ view = "children"
      kept == shown /\ rgForm /\ rgLocation = "/register"
  IN
    /\ rgLocation' = IF loc \in RGPublicPaths /\ view = "redirect"
                     THEN "/dashboard" ELSE loc
    /\ rgForm' = shown
    /\ rgFormError' = IF ~kept THEN Null
                      ELSE IF caller /\ sets THEN value ELSE rgFormError
    /\ rgCallerMounted' = (running /\ caller /\ kept)

\* handleRegister up to await register(userData), with register() up to
\* await authService.register(userData).
RGSubmit(email) ==
  /\ rgForm /\ rgReq = RGNoReq /\ rgHref = Null
  /\ email \in Users
  /\ rgOp' = "submit"
  /\ rgAnswer' = NoAnswered
  /\ rgLoading' = TRUE
  /\ rgError' = Null
  /\ rgReq' = [url |-> "/auth/register", email |-> email]
  /\ rgNavigated' = FALSE
  /\ UNCHANGED <<rgToken, rgCurrentUser, rgHref>>
  /\ RGRender(rgLocation, TRUE, TRUE, Null, TRUE)

\* handleRegister's catch and finally after register() or login() has thrown:
\* the provider has set its error and loading false.
RGFailed(resp) ==
  /\ rgError' = DetailOrMessage(resp)
  /\ rgLoading' = FALSE
  /\ rgReq' = RGNoReq
  /\ rgNavigated' = FALSE
  /\ UNCHANGED rgCurrentUser
  /\ RGRender(rgLocation, rgCallerMounted, TRUE,
              IF resp.detail # Null THEN resp.detail
              ELSE "Error al registrar usuario", FALSE)

\* register() after the await; on success handleRegister goes on to
\* login(values.email, values.password) up to await authService.login.
RGRegisterAnswered(resp) ==
  /\ rgReq.url = "/auth/register"
  /\ resp \in RegisterOk \cup Failures
  /\ rgOp' = "registerAnswered"
  /\ rgAnswer' = resp.status
  /\ LET i == NResponseInterceptor(resp, rgToken) IN
       /\ rgToken' = i.token
       /\ rgHref' = IF i.href # Null THEN i.href ELSE rgHref
       /\ IF i.stage = "resolved"
          THEN /\ rgLoading' = TRUE
               /\ rgError' = Null
               /\ rgReq' = [url |-> "/auth/login", email |-> rgReq.email]
               /\ rgNavigated' = FALSE
               /\ UNCHANGED rgCurrentUser
               /\ RGRender(rgLocation, rgCallerMounted, FALSE, Null, TRUE)
          ELSE RGFailed(resp)

\* authService.login after the POST (bare axios), then login() up to await
\* authService.getCurrentUser().
RGLoginAnswered(resp) ==
  /\ rgReq.url = "/auth/login"
  /\ resp \in LoginOk \cup Failures
  /\ rgOp' = "loginAnswered"
  /\ rgAnswer' = resp.status
  /\ UNCHANGED rgHref
  /\ IF resp.status = 200
     THEN /\ rgToken' = resp.data
          /\ rgReq' = [url |-> "/auth/me", email |-> rgReq.email]
          /\ rgNavigated' = FALSE
          /\ UNCHANGED <<rgLoading, rgError, rgCurrentUser>>
          /\ RGRender(rgLocation, rgCallerMounted, FALSE, Null, TRUE)
     ELSE /\ UNCHANGED rgToken
          /\ RGFailed(resp)

\* login() after await authService.getCurrentUser(); on success
\* handleRegister goes on to navigate('/dashboard').
RGMeAnswered(resp) ==
  /\ rgReq.url = "/auth/me"
  /\ resp \in MeOk \cup Failures
  /\ rgOp' = "meAnswered"
  /\ rgAnswer' = resp.status
  /\ LET i == NResponseInterceptor(resp, rgToken) IN
       /\ rgToken' = i.token
       /\ rgHref' = IF i.href # Null THEN i.href ELSE rgHref
       /\ IF i.stage = "resolved"
          THEN /\ rgCurrentUser' = resp.data
               /\ rgLoading' = FALSE
               /\ rgReq' = RGNoReq
               /\ rgNavigated' = TRUE
               /\ UNCHANGED rgError
               /\ RGRender("/dashboard", rgCallerMounted, FALSE, Null, FALSE)
          ELSE RGFailed(resp)

\* The user follows the link of RegisterForm to /login or the link of
\* LoginForm to /register.
RGFollowLink(path) ==
  /\ rgLocation \in RGPublicPaths /\ path \in RGPublicPaths \ {rgLocation}
  /\ PublicRoute(rgLoading, rgCurrentUser # Null) = "children"
  /\ rgReq = RGNoReq /\ rgHref = Null
  /\ rgOp' = "link"
  /\ rgAnswer' = NoAnswered
  /\ rgNavigated' = FALSE
  /\ UNCHANGED <<rgToken, rgCurrentUser, rgLoading, rgError, rgReq, rgHref>>
  /\ RGRender(path, FALSE, FALSE, Null, FALSE)

\* window.location.href = '/login' takes effect: the document is loaded
\* anew, and initAuth finds no token.
RGUnload ==
  /\ rgHref # Null
  /\ rgOp' = "unload"
  /\ rgAnswer' = NoAnswered
  /\ rgCurrentUser' = Null
  /\ rgLoading' = FALSE
  /\ rgError' = Null
  /\ rgReq' = RGNoReq
  /\ rgNavigated' = FALSE
  /\ rgHref' = Null
  /\ UNCHANGED rgToken
  /\ RGRender("/login", FALSE, FALSE, Null, FALSE)

\* The state of the components outside the authentication and training pages.
compvars == <<listvars, fuvars, rgvars>>

CompQuiet == ListsQuiet /\ FUQuiet /\ RGQuiet

\* ------------------------------------------------------------------------
\* Authentication: the browser has loaded one of the two frontends
\* ------------------------------------------------------------------------

\* The EV frontend is not the loaded application.
EQuiet ==
  /\ eToken = Null
  /\ eUser = Null
  /\ eLoading = TRUE
  /\ eIsAuthenticated = FALSE
  /\ eStarted = FALSE
  /\ eReq = EIdle
  /\ eCallResult = NoResult
  /\ eHref = Null
  /\ eOp = "load"
  /\ eLoggedOut = FALSE

authvars == <<app, nvars, evars>>

vars == <<authvars, epvars, npvars, compvars>>

AuthInit ==
  \/ app = "nissan" /\ NInit /\ EQuiet /\ EPQuiet /\ NPQuiet /\ CompQuiet
  \/ app = "ev" /\ EInit /\ NQuiet /\ EPQuiet /\ NPQuiet /\ CompQuiet

NFrame == app = "nissan" /\ UNCHANGED <<app, evars, epvars, npvars, compvars>>

EFrame == app = "ev" /\ UNCHANGED <<app, nvars, epvars, npvars, compvars>>

AuthNext ==
  \/ NFrame /\ NInitAuth
  \/ NFrame /\ \E s \in NSlots :
        \E resp \in MeOk \cup LoginOk \cup PlainOk \cup Failures : NDeliver(s, resp)
  \/ NFrame /\ NInitAuthDone
  \/ NFrame /\ NLogin
  \/ NFrame /\ NLoginStep
  \/ NFrame /\ NLoginDone
  \/ NFrame /\ NLogout
  \/ NFrame /\ NPageRequest
  \/ NFrame /\ NPageDone
  \/ NFrame /\ \E p \in NPaths : NNavigate(p)
  \/ NFrame /\ NUnload
  \/ NFrame /\ \E p \in NPaths : NOpenUrl(p)
  \/ NFrame /\ NTick
  \/ EFrame /\ EInitAuth
  \/ EFrame /\ \E s \in ESlots :
        \E resp \in MeOk \cup ELoginOk \cup PlainOk \cup EFailures : EDeliver(s, resp)
  \/ EFrame /\ EInitAuthSettled
  \/ EFrame /\ EInitAuthFinally
  \/ EFrame /\ ELogin
  \/ EFrame /\ ELoginStep
  \/ EFrame /\ ELoginDone
  \/ EFrame /\ ERegister
  \/ EFrame /\ ERegisterDone
  \/ EFrame /\ ELogout
  \/ EFrame /\ EPageRequest
  \/ EFrame /\ EUploadRequest
  \/ EFrame /\ EPageDone
  \/ EFrame /\ EUnload
  \/ EFrame /\ EOpenUrl

SpecAuth == AuthInit /\ [][AuthNext]_vars

\* ------------------------------------------------------------------------
\* Training of a model in the EV frontend
\* ------------------------------------------------------------------------

EPFrame == UNCHANGED <<authvars, npvars, compvars>>

EVPollNext ==
  \/ EPFrame /\ \E m \in EModels : ETrainModel(m)
  \/ EPFrame /\ \E ok \in BOOLEAN, unauthorized \in BOOLEAN :
        ETrainStarted(ok, unauthorized)
  \/ EPFrame /\ EPollTick
  \/ EPFrame /\ \E a \in EPollAnswers : EPollAnswered(a)
  \/ EPFrame /\ EPollTimeout
  \/ EPFrame /\ EPass
  \/ EPFrame /\ EPUnload

EVPollInit == app = "ev" /\ NQuiet /\ EQuiet /\ EPInit /\ NPQuiet /\ CompQuiet

SpecEVPoll == EVPollInit /\ [][EVPollNext]_vars

\* ------------------------------------------------------------------------
\* Training of a model in the Nissan frontend
\* ------------------------------------------------------------------------

NPFrame == UNCHANGED <<authvars, epvars, compvars>>

NissanPollNext ==
  \/ NPFrame /\ NPMountEffect
  \/ NPFrame /\ \E resp \in PlainOk \cup Failures : NPFileLoaded(resp)
  \/ NPFrame /\ \E f \in NPFileIds : NPFileIdChange(f)
  \/ NPFrame /\ NPUnmount
  \/ NPFrame /\ NPTrainModel
  \/ NPFrame /\ \E resp \in NTrainOk \cup Failures : NPTrainStarted(resp)
  \/ NPFrame /\ \E id \in NPLoopIds : NPollTick(id)
  \/ NPFrame /\ \E id \in NPLoopIds :
        \E resp \in NPollOk \cup NPollFailures : NPollAnswered(id, resp)
  \/ NPFrame /\ NPReset
  \/ NPFrame /\ NPPass
  \/ NPFrame /\ NPUnload

NissanPollInit ==
  app = "nissan" /\ NQuiet /\ EQuiet /\ EPQuiet /\ NPInit /\ CompQuiet

SpecNissanPoll == NissanPollInit /\ [][NissanPollNext]_vars

\* ------------------------------------------------------------------------
\* The list pages of the Nissan frontend
\* ------------------------------------------------------------------------

MLFrame ==
  list = "models" /\ UNCHANGED <<authvars, epvars, npvars, list, flvars, fuvars,
                                      rgvars>>

FLFrame ==
  list = "files" /\ UNCHANGED <<authvars, epvars, npvars, list, mlvars, fuvars,
                                      rgvars>>

ListsNext ==
  \/ MLFrame /\ MLMountEffect
  \/ MLFrame /\ \E resp \in MLListOk \cup Failures : MLLoadAnswered(resp)
  \/ MLFrame /\ MLTick
  \/ MLFrame /\ \E f \in MLFileIds : MLFileIdChange(f)
  \/ MLFrame /\ MLUnmount
  \/ MLFrame /\ \E model \in mlModels : MLDeleteClick(model)
  \/ MLFrame /\ MLCloseDialog
  \/ MLFrame /\ MLDeleteConfirm
  \/ MLFrame /\ \E k \in 1 .. MaxDeletes :
        \E resp \in PlainOk \cup Failures : MLDeleteAnswered(k, resp)
  \/ MLFrame /\ MLPass
  \/ MLFrame /\ MLUnload
  \/ FLFrame /\ FLMountEffect
  \/ FLFrame /\ \E resp \in FLListOk \cup Failures : FLLoadAnswered(resp)
  \/ FLFrame /\ FLUnmount
  \/ FLFrame /\ \E file \in flFiles : FLDeleteClick(file)
  \/ FLFrame /\ FLCloseDialog
  \/ FLFrame /\ FLDeleteConfirm
  \/ FLFrame /\ \E k \in 1 .. MaxDeletes :
        \E resp \in PlainOk \cup Failures : FLDeleteAnswered(k, resp)
  \/ FLFrame /\ FLUnload

ListsInit ==
  /\ app = "nissan" /\ NQuiet /\ EQuiet /\ EPQuiet /\ NPQuiet /\ FUQuiet
  /\ RGQuiet
  /\ \/ list = "models" /\ MLInit /\ FLQuiet
     \/ list = "files" /\ FLInit /\ MLQuiet

SpecLists == ListsInit /\ [][ListsNext]_vars

\* ------------------------------------------------------------------------
\* The upload page of the Nissan frontend
\* ------------------------------------------------------------------------

FUFrame == UNCHANGED <<authvars, epvars, npvars, listvars, rgvars>>

FileUploadNext ==
  \/ FUFrame /\ \E name \in FUFileNames, accepted \in BOOLEAN :
        FUOnDrop(name, accepted)
  \/ FUFrame /\ \E id \in FUIntervalIds : FUProgressTick(id)
  \/ FUFrame /\ \E resp \in UploadOk \cup Failures : FUUploadAnswered(resp)
  \/ FUFrame /\ FUResetTimeout
  \/ FUFrame /\ FUPass
  \/ FUFrame /\ FUUnload

FileUploadInit ==
  /\ app = "nissan" /\ NQuiet /\ EQuiet /\ EPQuiet /\ NPQuiet /\ ListsQuiet
  /\ FUInit /\ RGQuiet

SpecFileUpload == FileUploadInit /\ [][FileUploadNext]_vars

\* ------------------------------------------------------------------------
\* The register page of the Nissan frontend
\* ------------------------------------------------------------------------

RGFrame == UNCHANGED <<authvars, epvars, npvars, listvars, fuvars>>

RegisterNext ==
  \/ RGFrame /\ \E email \in Users : RGSubmit(email)
  \/ RGFrame /\ \E resp \in RegisterOk \cup Failures : RGRegisterAnswered(resp)
  \/ RGFrame /\ \E resp \in LoginOk \cup Failures : RGLoginAnswered(resp)
  \/ RGFrame /\ \E resp \in MeOk \cup Failures : RGMeAnswered(resp)
  \/ RGFrame /\ \E path \in RGPublicPaths : RGFollowLink(path)
  \/ RGFrame /\ RGUnload

RegisterInit ==
  /\ app = "nissan" /\ NQuiet /\ EQuiet /\ EPQuiet /\ NPQuiet /\ ListsQuiet
  /\ FUQuiet /\ RGInit

SpecRegister == RegisterInit /\ [][RegisterNext]_vars

\* ------------------------------------------------------------------------
\* Properties of the authentication state machines (under SpecAuth)
\* ------------------------------------------------------------------------

\* A request of slot s leaves the page in this step.
NIssued(s) == nReq[s].stage # "sent" /\ nReq'[s].stage = "sent"

EIssued(s) == eReq[s].stage # "sent" /\ eReq'[s].stage = "sent"

\* The response of slot s passes the response interceptor in this step.
NReceived(s) == nReq[s].stage = "sent" /\ nReq'[s].stage \in {"resolved", "rejected"}

EReceived(s) == eReq[s].stage = "sent" /\ eReq'[s].stage \in {"resolved", "rejected"}

\* C1: ProtectedRoute of the Nissan frontend shows its children only when
\* loading is false and currentUser is non-null; while loading is true it
\* shows the spinner and does not redirect; when loading is false and the user
\* is not authenticated it redirects to /login and records the location that
\* was asked for in location.state.from.
C1_ProtectedRoute ==
  /\ [](app = "nissan" =>
          /\ (nScreen = "app" => (~nLoading /\ nCurrentUser # Null))
          /\ (nLoading => nScreen = "spinner")
          /\ ((~nLoading /\ nCurrentUser = Null) => nLocation = "/login"))
  /\ [][(/\ app = "nissan"
         /\ nOp' \notin {"unload", "openUrl"}
         /\ nLoading') => nLocation' = nLocation]_vars
  /\ [][(/\ app = "nissan"
         /\ nOp' \notin {"unload", "openUrl", "logout"}
         /\ nLocation \in NProtectedPaths
         /\ ~nLoading' /\ nCurrentUser' = Null)
        => (nLocation' = "/login" /\ nFrom' = nLocation)]_vars

\* C1 witness: a protected location was asked for without a session and
\* ProtectedRoute has sent the browser to the login form, recording it.
C1_Witness ==
  /\ app = "nissan"
  /\ nScreen = "login"
  /\ nFrom \in NProtectedPaths
  /\ ~nLoading /\ nCurrentUser = Null

\* C2: in both providers loading is true from mount and, with a token stored,
\* stays true until the startup /auth/me request has settled; when that
\* request succeeds the user is authenticated by it (no login() involved) and
\* the Nissan ProtectedRoute goes from the spinner to its children without a
\* redirect.
C2_StartupKeepsLoading ==
  /\ [](app = "nissan" =>
          ((~nStarted \/ nReq["initMe"].stage # "idle")
             => (nLoading /\ nScreen = "spinner")))
  /\ [](app = "ev" =>
          ((~eStarted \/ eReq["initMe"].stage # "idle") => eLoading))
  /\ [][(app = "nissan" /\ nReq["initMe"].stage = "resolved")
        => /\ nCurrentUser' = nReq["initMe"].resp.data
           /\ ~nLoading'
           /\ nLoginResult'.kind = "none"
           /\ (nLocation \in NProtectedPaths
                 => (nLocation' = nLocation /\ nFrom' = nFrom /\ nScreen' = "app"))]_vars
  /\ [][(app = "ev" /\ eReq["initMe"].stage = "resolved")
        => (eIsAuthenticated' /\ eUser' = eReq["initMe"].resp.data /\ eLoading')]_vars
  /\ [][(app = "ev" /\ eLoading /\ ~eLoading' /\ eReq["initMe"].resp.status = 200)
        => eIsAuthenticated']_vars

\* C2 witness: a stored token, a successful startup request, the user is in
\* on a protected page and login() was never called.
C2_Witness ==
  /\ app = "nissan"
  /\ nOp = "initAuthDone"
  /\ nInitToken \in Tokens
  /\ nCurrentUser \in Users
  /\ nLoginResult.kind = "none"
  /\ nScreen = "app"

\* C3: at startup of the Nissan provider a stored token that cannot be decoded
\* or whose exp is earlier than the current time is removed from localStorage,
\* currentUser stays null and no request is sent.
C3_ExpiredTokenRemoved ==
  [][(/\ app = "nissan"
      /\ ~nStarted /\ nStarted'
      /\ nToken # Null
      /\ (nToken = "garbage" \/ (Exp(nToken) # -1 /\ Exp(nToken) < now)))
     => (/\ nToken' = Null
         /\ nCurrentUser' = Null
         /\ nReq' = nReq
         /\ \A s \in NSlots : nReq'[s].stage = "idle")]_vars

\* C3 witness: initAuth has read a token that expired a second ago.
C3_Witness ==
  /\ app = "nissan"
  /\ nOp = "initAuth"
  /\ nInitToken = "tokA" /\ now = Exp("tokA") + 1
  /\ nToken = Null /\ nCurrentUser = Null

\* C4: logout() leaves no token in localStorage and no user (Nissan:
\* currentUser null; EV: user null, isAuthenticated false) and sends nothing;
\* from then on, until a login stores a token, no token is stored and no
\* request that is issued carries an Authorization header.
C4_Logout ==
  /\ [][(app = "nissan" /\ nOp' = "logout")
        => (nToken' = Null /\ nCurrentUser' = Null /\ nReq' = nReq)]_vars
  /\ [][(app = "ev" /\ eOp' = "logout")
        => (/\ eToken' = Null /\ eUser' = Null /\ ~eIsAuthenticated'
            /\ eReq' = eReq)]_vars
  /\ [](nLoggedOut => nToken = Null)
  /\ [](eLoggedOut => eToken = Null)
  /\ [][\A s \in NSlots : (NIssued(s) /\ nLoggedOut') => nReq'[s].auth = Null]_vars
  /\ [][\A s \in ESlots : (EIssued(s) /\ eLoggedOut') => eReq'[s].auth = Null]_vars

\* C4 witness: after logout() the next login request leaves without a header.
C4_Witness ==
  /\ app = "ev"
  /\ eLoggedOut
  /\ eOp = "login"
  /\ eToken = Null /\ eUser = Null /\ ~eIsAuthenticated
  /\ eReq["login"].stage = "sent" /\ eReq["login"].auth = Null

\* C5: a request issued through the shared axios client (apiClient, api)
\* carries Authorization: Bearer <t> with t the token in localStorage as the
\* request is issued, and no Authorization header when none is stored.
C5_AuthorizationHeader ==
  /\ [][\A s \in NSlots \ {"login"} :
          NIssued(s) => nReq'[s].auth =
                          (IF nToken' = Null THEN Null ELSE "Bearer " \o nToken')]_vars
  /\ [][\A s \in ESlots :
          EIssued(s) => eReq'[s].auth =
                          (IF eToken' = Null THEN Null ELSE "Bearer " \o eToken')]_vars

\* C5 witness: login() has just stored tokB and asks for /auth/me with it.
C5_Witness ==
  /\ app = "nissan"
  /\ nOp = "loginStep"
  /\ nToken = "tokB"
  /\ nReq["loginMe"].stage = "sent"
  /\ nReq["loginMe"].auth = "Bearer tokB"

\* C6: a 401 response received through the shared axios client removes the
\* stored token, assigns /login to window.location.href (which is then the
\* document that loads) and is still rejected to the caller; every error is
\* rejected to the caller; a response with another status leaves the token and
\* the location alone.
C6_Unauthorized ==
  /\ [][\A s \in NSlots \ {"login"} :
          NReceived(s) =>
            /\ (nReq'[s].resp.status = 401
                  => (nToken' = Null /\ nHref' = "/login"
                      /\ nReq'[s].stage = "rejected"))
            /\ (nReq'[s].resp.status # 401 => (nToken' = nToken /\ nHref' = nHref))
            /\ (nReq'[s].resp.status # 200 => nReq'[s].stage = "rejected")]_vars
  /\ [][\A s \in ESlots :
          EReceived(s) =>
            /\ (eReq'[s].resp.status = 401
                  => (eToken' = Null /\ eHref' = "/login"
                      /\ eReq'[s].stage = "rejected"))
            /\ (eReq'[s].resp.status # 401 => (eToken' = eToken /\ eHref' = eHref))
            /\ (eReq'[s].resp.status # 200 => eReq'[s].stage = "rejected")]_vars
  /\ [][(nHref # Null /\ nHref' = Null) => nLocation' = "/login"]_vars

\* C6 witness: a page request of a logged-in user was answered 401.
C6_Witness ==
  /\ app = "nissan"
  /\ nOp = "deliver"
  /\ nCurrentUser # Null
  /\ nReq["page"].stage = "rejected" /\ nReq["page"].resp.status = 401
  /\ nToken = Null /\ nHref = "/login"

\* A login() or register() call of the EV provider has just failed.
ELoginFailedNow ==
  /\ eOp \in {"loginStep", "loginDone"}
  /\ eCallResult.kind = "resolved" /\ ~eCallResult.success

\* C7 as stated: login() and register() of the EV provider never reject,
\* resolve to success on success and to {success: false, error: <string>} on a
\* failure, and after a failed login the user is not authenticated.
C7_AsStated ==
  app = "ev" =>
    /\ eCallResult.kind # "rejected"
    /\ (eCallResult.kind = "resolved" /\ ~eCallResult.success
          => eCallResult.error.type = "string")
    /\ (ELoginFailedNow => ~eIsAuthenticated)

\* C7 amended: login() and register() of the EV provider never reject; they
\* resolve to success exactly when every request succeeded and to
\* {success: false, error: <string>} otherwise; a failed login leaves user and
\* isAuthenticated as they were (it does not authenticate anyone, and it does
\* not sign out a user who was authenticated).
C7_FailedLoginKeepsState ==
  /\ [](app = "ev" =>
          /\ eCallResult.kind \in {"none", "pending", "resolved"}
          /\ (eCallResult.kind = "resolved" =>
                IF eCallResult.success
                THEN eCallResult.error = NoError
                ELSE eCallResult.error.type = "string"))
  /\ [][(/\ app = "ev"
         /\ \E s \in {"login", "loginMe", "register"} : eReq[s].stage = "rejected")
        => (/\ eCallResult'.kind = "resolved" /\ ~eCallResult'.success
            /\ eIsAuthenticated' = eIsAuthenticated /\ eUser' = eUser)]_vars
  /\ [][(/\ app = "ev"
         /\ \E s \in {"loginMe", "register"} : eReq[s].stage = "resolved")
        => (eCallResult'.kind = "resolved" /\ eCallResult'.success)]_vars
  /\ [][(app = "ev" /\ eReq["loginMe"].stage = "resolved")
        => (eIsAuthenticated' /\ eUser' = eReq["loginMe"].resp.data)]_vars

\* C7 witness: a login was refused while the startup check had already
\* authenticated the user.
C7_Witness ==
  /\ app = "ev"
  /\ ELoginFailedNow
  /\ eCallResult.error.type = "string"
  /\ eIsAuthenticated

\* C8: login() of the Nissan provider stores the access token before it asks
\* for /auth/me (the request carries the new token), then sets currentUser to
\* the user returned and returns it; when either request fails currentUser is
\* unchanged, error is the backend detail or else the error message, the
\* error is rethrown and loading ends false.
C8_NissanLogin ==
  /\ [][(app = "nissan" /\ nReq["login"].stage = "resolved")
        => (/\ nToken' = nReq["login"].resp.data
            /\ nReq'["loginMe"].stage = "sent"
            /\ nReq'["loginMe"].url = "/auth/me"
            /\ nReq'["loginMe"].auth = "Bearer " \o nReq["login"].resp.data
            /\ nCurrentUser' = nCurrentUser)]_vars
  /\ [][(app = "nissan" /\ nReq["loginMe"].stage = "resolved")
        => (/\ nCurrentUser' = nReq["loginMe"].resp.data
            /\ nLoginResult' = [kind |-> "returned",
                                value |-> nReq["loginMe"].resp.data]
            /\ ~nLoading')]_vars
  /\ [][(/\ app = "nissan"
         /\ \E s \in {"login", "loginMe"} : nReq[s].stage = "rejected")
        => (LET r == IF nReq["login"].stage = "rejected"
                     THEN nReq["login"].resp ELSE nReq["loginMe"].resp
            IN /\ nCurrentUser' = nCurrentUser
               /\ nError' = (IF r.detail # Null THEN r.detail ELSE "message")
               /\ nLoginResult'.kind = "thrown"
               /\ ~nLoading')]_vars

\* C8 witness: login() has returned the user the backend named.
C8_Witness ==
  /\ app = "nissan"
  /\ nOp = "loginDone"
  /\ nLoginResult = [kind |-> "returned", value |-> "bob"]
  /\ nCurrentUser = "bob"
  /\ nToken \in Tokens
  /\ ~nLoading

\* ------------------------------------------------------------------------
\* Properties of the EV training poll (under SpecEVPoll)
\* ------------------------------------------------------------------------

\* C9: once training was started the EV page polls every 5 seconds (the k-th
\* poll request leaves 5000*k ms after the start and no tick is skipped while
\* the interval is set); no poll request is issued after a poll answer with
\* is_trained was handled (which shows the completion message, clears the
\* training indicator and reloads the list), after a failed poll was handled,
\* or after the 5-minute timer fired; so the interval is cleared once 5
\* minutes have passed and at most 300000/5000 polls are issued.
C9_PollingStops ==
  /\ [](epInterval.active =>
          /\ epInterval.due = PollIntervalMs * (epPollsSent + 1)
          /\ epNow <= epInterval.due)
  /\ [][epPollsSent' = epPollsSent + 1
        => (epNow' = PollIntervalMs * epPollsSent' /\ ~epStopped)]_vars
  /\ [][(epHandled' = epHandled + 1 /\ epLastAnswer' = "trained")
        => (/\ ~epInterval'.active
            /\ epMessage' = "Model training completed!"
            /\ epTrainingModel' = Null
            /\ epReloads' = epReloads + 1)]_vars
  /\ [][(epHandled' = epHandled + 1 /\ epLastAnswer' \in {"error", "error401"})
        => (~epInterval'.active /\ epTrainingModel' = Null)]_vars
  /\ [](epStopped => ~epInterval.active)
  /\ [](epNow > PollTimeoutMs => (epStopped /\ ~epInterval.active))
  /\ [](epPollsSent * PollIntervalMs <= PollTimeoutMs)

\* C9 witness: a training that never finished was polled for the whole five
\* minutes and then the timer stopped the loop.
C9_Witness ==
  /\ epPhase = "started"
  /\ epNow > PollTimeoutMs
  /\ epPollsSent * PollIntervalMs = PollTimeoutMs
  /\ epLastAnswer = "untrained"
  /\ epStopped /\ ~epInterval.active /\ ~epTimeout

\* ------------------------------------------------------------------------
\* Properties of the Nissan training poll (under SpecNissanPoll)
\* ------------------------------------------------------------------------

\* The poll callback of interval id handles an answer in this step.
NPAnswers(id) == npOp' = "answered" /\ npLastAnswer'.loop = id

\* ... and the answer is a model whose training has ended.
NPFinalAnswer(id) ==
  /\ NPAnswers(id)
  /\ npLastAnswer'.resp.status = 200
  /\ npLastAnswer'.resp.data \in {"completed", "failed"}

\* The interval id is set until this step and cleared by it.
NPStops(id) == npLoops[id].active /\ ~npLoops'[id].active

\* The parts of C10 that hold as stated: the interval is set when the training
\* request succeeds and fires every 3000 ms; a poll that returns 'completed'
\* or 'failed' clears it; a failed poll request and a poll that returns
\* another status leave the interval and the component's state as they were;
\* onModelTrained is called once per 'completed' answer and for nothing else;
\* a 'failed' answer sets the training-failed message.
NPollCallback ==
  /\ [](\A id \in NPLoopIds : npLoops[id].active =>
          /\ npLoops[id].due = npLoops[id].first + TrainingPollMs * npLoops[id].sent
          /\ npNow <= npLoops[id].due)
  /\ [][\A id \in NPLoopIds :
          /\ (~npLoops[id].set /\ npLoops'[id].set)
               => (/\ npOp' = "trainStarted"
                   /\ npLoops'[id].active
                   /\ npLoops'[id].due = npNow + TrainingPollMs)
          /\ (npLoops'[id].sent = npLoops[id].sent + 1)
               => npNow' = npLoops[id].first + TrainingPollMs * npLoops[id].sent
          /\ NPFinalAnswer(id) => ~npLoops'[id].active
          /\ (NPAnswers(id) /\ ~NPFinalAnswer(id))
               => (/\ npLoops'[id].active = npLoops[id].active
                   /\ UNCHANGED <<npError, npTrainingStatus, npCalls,
                                  npPollingInterval, npTraining,
                                  npActiveStep>>)
          /\ (NPAnswers(id) /\ npLastAnswer'.resp.data = "failed" /\ npMounted)
               => (npError' = TrainingFailedMessage
                   /\ npTrainingStatus' = "failed")]_vars
  /\ [][npCalls' # npCalls
        => (/\ npCalls' = npCalls + 1
            /\ npOp' = "answered"
            /\ npLastAnswer'.resp.data = "completed")]_vars
  /\ [][(npOp' = "answered" /\ npLastAnswer'.resp.data = "completed"
           /\ npOnModelTrained)
        => npCalls' = npCalls + 1]_vars

\* C10 as stated: after a training request succeeds the model is polled every
\* 3 seconds and, while the component stays mounted with its fileId, a
\* polling that has begun stops exactly when a poll returns 'completed' or
\* 'failed': no other step, and so no failed poll request, ends it;
\* onModelTrained is called only for 'completed', and 'failed' sets the
\* training-failed message.
C10_AsStated ==
  /\ NPollCallback
  /\ [][\A id \in NPLoopIds :
          (npOp' \notin {"unmount", "fileId"} /\ npLoops[id].sent > 0) =>
            (NPStops(id) <=> (NPFinalAnswer(id) /\ npLoops[id].active))]_vars

\* C10 amended: after a training request succeeds the model is polled every 3
\* seconds; the poll callback clears the interval exactly when a poll returns
\* 'completed' or 'failed'; a failed poll request is swallowed by the
\* callback, which leaves the interval set; apart from the callback the
\* polling ends only when the effect's cleanup runs holding the interval id
\* (unmount or fileId change, after an earlier fileId change made the effect
\* capture it) or when the document is unloaded because a 401 response made
\* the interceptor assign /login to window.location.href; onModelTrained is
\* called only for 'completed', and 'failed' sets the training-failed message.
C10_PollingStops ==
  /\ NPollCallback
  /\ [][\A id \in NPLoopIds :
          NPStops(id) =>
            \/ NPFinalAnswer(id)
            \/ npOp' \in {"unmount", "fileId"} /\ npCleanup = id
            \/ npOp' = "unload" /\ npHref = "/login" /\ npToken = Null]_vars
  /\ [][(npOp' = "answered" /\ npLastAnswer'.resp.status = 401)
        => (npToken' = Null /\ npHref' = "/login")]_vars

\* C10 witness: a poll request failed with a 500, the callback swallowed it
\* and the next tick of the same interval has sent another poll.
C10_Witness ==
  /\ npOp = "tick"
  /\ npLastAnswer.loop = 1 /\ npLastAnswer.resp.status = 500
  /\ npLoops[1].active /\ npLoops[1].sent >= 2 /\ npLoops[1].inFlight = 1
  /\ npHref = Null

\* ------------------------------------------------------------------------
\* Properties of the list pages (under SpecLists)
\* ------------------------------------------------------------------------

\* The interval callback of ModelsList sends a reload request in this step.
MLPeriodicReload == mlOp' = "tick" /\ mlLoads' = mlLoads + 1

\* C11: in ModelsList, whenever the 5-second interval fires, the list is
\* reloaded from the backend if the displayed list contains a model whose
\* training_status is 'pending' or 'training', and no reload request is sent
\* if the displayed list contains no such model.
C11_AsStated ==
  [][(list = "models" /\ mlOp' = "tick" /\ mlMounted /\ ~mlLoading)
     => (MLPeriodicReload <=> hasTrainingModels(mlModels))]_vars

\* A delete request leaves the page in this step.
MLDeleteSent == Len(mlDeletes') = Len(mlDeletes) + 1

FLDeleteSent == Len(flDeletes') = Len(flDeletes) + 1

\* A delete request is sent only from the open confirmation dialog with an
\* item selected, and not while another is in flight.
DeleteFromDialog ==
  /\ [][MLDeleteSent => (/\ mlOp' = "deleteConfirm"
                         /\ mlDeleteDialogOpen /\ mlModelToDelete # NoModel
                         /\ Len(mlDeletes) = 0)]_vars
  /\ [][FLDeleteSent => (/\ flOp' = "deleteConfirm"
                         /\ flDeleteDialogOpen /\ flFileToDelete # NoFile
                         /\ Len(flDeletes) = 0)]_vars
  /\ [](Len(mlDeletes) <= 1 /\ Len(flDeletes) <= 1)

\* A successful delete removes exactly the deleted item from the displayed
\* list and sends no list request.
DeleteRemovesItem ==
  /\ [][(mlOp' = "deleted" /\ mlMounted /\ mlAnswer' = 200)
        => (/\ mlModels' = {model \in mlModels :
                               model.id # Head(mlDeletes).model.id}
            /\ mlLoads' = mlLoads)]_vars
  /\ [][(flOp' = "deleted" /\ flMounted /\ flAnswer' = 200)
        => (/\ flFiles' = {file \in flFiles :
                              file.id # Head(flDeletes).file.id}
            /\ flLoads' = flLoads)]_vars

\* A failed delete leaves the displayed list as it is and sets an error.
DeleteFailureKeepsList ==
  /\ [][(mlOp' = "deleted" /\ mlMounted /\ mlAnswer' # 200)
        => (mlModels' = mlModels /\ mlError' # Null)]_vars
  /\ [][(flOp' = "deleted" /\ flMounted /\ flAnswer' # 200)
        => (flFiles' = flFiles /\ flError' # Null)]_vars

\* After a delete has settled the dialog is closed, no item is selected and
\* deleting is false.
DeleteSettled ==
  /\ [][(mlOp' = "deleted" /\ mlMounted)
        => (/\ ~mlDeleteDialogOpen' /\ mlModelToDelete' = NoModel
            /\ ~mlDeleting')]_vars
  /\ [][(flOp' = "deleted" /\ flMounted)
        => (/\ ~flDeleteDialogOpen' /\ flFileToDelete' = NoFile
            /\ ~flDeleting')]_vars

\* C16: in FilesList and ModelsList a delete request is sent only from the
\* confirmation dialog with an item selected, and at most one delete request
\* is in flight at a time; on success exactly that item is removed from the
\* displayed list without refetching, on failure the displayed list is
\* unchanged and an error is set, and in both cases the dialog is closed, the
\* selected item is cleared and deleting is reset to false.
C16_AsStated ==
  /\ DeleteFromDialog
  /\ DeleteRemovesItem
  /\ DeleteFailureKeepsList
  /\ DeleteSettled

\* ------------------------------------------------------------------------
\* Unmounting the training page (under SpecNissanPoll)
\* ------------------------------------------------------------------------

\* C12: when ModelTraining is unmounted, or its fileId changes, while a
\* training poll is running, the polling interval is cleared, and no poll
\* request is issued after the unmount.
C12_AsStated ==
  /\ [][npOp' \in {"unmount", "fileId"}
        => \A id \in NPLoopIds : ~npLoops'[id].active]_vars
  /\ [][npOp' = "tick" => npMounted]_vars

\* ------------------------------------------------------------------------
\* Content-Type of the requests of the EV frontend (under SpecAuth)
\* ------------------------------------------------------------------------

\* C13: in the EV frontend every request whose body is a FormData object
\* leaves the request interceptor without a Content-Type header, also when
\* the caller set one (uploadBatteryData sets multipart/form-data); a request
\* with any other body keeps the default application/json.
C13_FormDataContentType ==
  [][\A s \in ESlots :
       EIssued(s) =>
         eReq'[s].ctype = (IF eReq'[s].data = "FormData" THEN Null
                           ELSE "application/json")]_vars

\* C13 witness: the upload of a file has left with its FormData body and no
\* Content-Type.
C13_Witness ==
  /\ app = "ev"
  /\ eOp = "upload"
  /\ eReq["page"].stage = "sent"
  /\ eReq["page"].data = "FormData"
  /\ eReq["page"].ctype = Null

\* ------------------------------------------------------------------------
\* Properties of the upload page (under SpecFileUpload)
\* ------------------------------------------------------------------------

\* The upload request leaves the page in this step.
FUUploadSent == fuInFlight = 0 /\ fuInFlight' # 0

\* The step sends nothing and leaves uploading, success and uploadProgress.
FUNoUpload ==
  /\ fuInFlight' = fuInFlight
  /\ UNCHANGED <<fuUploading, fuSuccess, fuUploadProgress>>

\* C14 as stated: an upload request is sent only for a dropped file whose name
\* ends with '.csv'; for any other dropped file the error 'Solo se permiten
\* archivos CSV' is set, no request is sent, and uploading, success and
\* uploadProgress are left unchanged.
C14_AsStated ==
  [][fuOp' = "drop" =>
       /\ FUUploadSent => EndsWith(fuDrop'.name, ".csv")
       /\ ~EndsWith(fuDrop'.name, ".csv")
            => (fuError' = "Solo se permiten archivos CSV" /\ FUNoUpload)]_vars

\* C14: an upload request is sent only for a dropped file that the dropzone
\* passes to onDrop and whose name ends with '.csv'; for a file passed to
\* onDrop with any other name the error 'Solo se permiten archivos CSV' is
\* set, no request is sent, and uploading, success and uploadProgress are left
\* unchanged; a drop whose file the dropzone does not pass to onDrop changes
\* nothing, the error included.
C14_CsvOnly ==
  [][fuOp' = "drop" =>
       /\ FUUploadSent => (fuDrop'.accepted /\ EndsWith(fuDrop'.name, ".csv"))
       /\ (fuDrop'.accepted /\ ~EndsWith(fuDrop'.name, ".csv"))
            => (fuError' = "Solo se permiten archivos CSV" /\ FUNoUpload)
       /\ ~fuDrop'.accepted => (fuError' = fuError /\ FUNoUpload)]_vars

\* C14 witness: a file named DATA.CSV reached onDrop and was refused with the
\* error, without a request.
C14_Witness ==
  /\ fuOp = "drop"
  /\ fuDrop = [name |-> "DATA.CSV", accepted |-> TRUE]
  /\ fuError = "Solo se permiten archivos CSV"
  /\ fuInFlight = 0 /\ ~fuUploading

\* C17: the simulated progress of FileUpload rises in steps of 10 at the ticks
\* of the 300 ms interval, never exceeds 90 while an upload request is in
\* flight, becomes 100 only when an upload has succeeded, and is reset to 0,
\* with the success flag cleared, by a timeout set to 3 seconds at each
\* success.
C17_AsStated ==
  /\ [][fuOp' = "tick" => fuUploadProgress' \in {fuUploadProgress + 10, 90}]_vars
  /\ [](fuInFlight # 0 => fuUploadProgress <= 90)
  /\ [][(fuUploadProgress' = 100 /\ fuUploadProgress # 100)
        => (fuOp' = "answered" /\ fuSuccess')]_vars
  /\ [][(fuOp' = "answered" /\ fuSuccess') => ResetDelayMs \in fuTimeouts']_vars
  /\ [][fuOp' = "reset" => (fuUploadProgress' = 0 /\ ~fuSuccess')]_vars

\* ------------------------------------------------------------------------
\* Failure of the startup profile request (under SpecAuth)
\* ------------------------------------------------------------------------

\* The Nissan provider's initAuth ends after its profile request failed.
NInitAuthFailed ==
  /\ app = "nissan" /\ nOp' = "initAuthDone"
  /\ nReq["initMe"].stage = "rejected"

\* The EV provider's .catch runs after its profile request failed.
EInitAuthFailed ==
  /\ app = "ev" /\ eOp' = "initAuthSettled"
  /\ eReq["initMe"].stage = "rejected"

\* The EV provider's .finally runs after its profile request failed.
EInitAuthFailedFinally ==
  /\ app = "ev" /\ eOp' = "initAuthFinally"
  /\ eReq["initMe"].resp.status # 200

\* The failure handlers remove the token and end with loading false.
InitFailureClearsToken ==
  /\ [][NInitAuthFailed => (nToken' = Null /\ ~nLoading')]_vars
  /\ [][EInitAuthFailed => eToken' = Null]_vars
  /\ [][EInitAuthFailedFinally => ~eLoading']_vars

\* C18: when the startup profile request fails for any reason (no response,
\* 5xx, 401), both AuthProviders remove the stored token, leave the user
\* unauthenticated and end with loading false.
C18_AsStated ==
  /\ InitFailureClearsToken
  /\ [][NInitAuthFailed => nCurrentUser' = Null]_vars
  /\ [][EInitAuthFailed => (eUser' = Null /\ ~eIsAuthenticated')]_vars
  /\ [][EInitAuthFailedFinally => (eUser' = Null /\ ~eIsAuthenticated')]_vars

\* ------------------------------------------------------------------------
\* RegisterForm (under SpecRegister)
\* ------------------------------------------------------------------------

\* A handler of the register flow has just handled a failed response.
RGFailure ==
  /\ rgOp' \in {"registerAnswered", "loginAnswered", "meAnswered"}
  /\ rgAnswer' # 200

\* register, then login with the same email, then navigate('/dashboard'):
\* login is requested only when register has succeeded, navigate is called
\* only when login and its profile request have succeeded, and a failure is
\* followed by no navigation.
RegisterOrder ==
  /\ [][(rgReq'.url = "/auth/register" /\ rgReq.url # "/auth/register")
        => rgOp' = "submit"]_vars
  /\ [][(rgReq'.url = "/auth/login" /\ rgReq.url # "/auth/login")
        => (/\ rgOp' = "registerAnswered" /\ rgAnswer' = 200
            /\ rgReq.url = "/auth/register"
            /\ rgReq'.email = rgReq.email)]_vars
  /\ [][rgNavigated'
        => (/\ rgOp' = "meAnswered" /\ rgAnswer' = 200
            /\ rgReq.url = "/auth/me" /\ rgToken' # Null
            /\ rgCurrentUser' # Null /\ rgLocation' = "/dashboard")]_vars
  /\ [][RGFailure => (~rgNavigated' /\ rgLocation' = rgLocation
                      /\ rgReq' = RGNoReq)]_vars

\* C15: submitting RegisterForm calls register, then login with the same
\* email and password, then navigates to /dashboard, in that order; login
\* only after register succeeded, navigation only after both succeeded, and
\* on any failure an error is shown and no navigation occurs.
C15_AsStated ==
  /\ RegisterOrder
  /\ [][RGFailure => (rgForm' /\ rgFormError' # Null)]_vars

====
